---- MODULE Spec2Model ----
(***************************************************************************)
(* Merged-mesh vertex reduction (MergedMesh.from_flver / merge_vertices)   *)
(* and resplitting (MergedMesh.split_mesh / subsplit_faces) of             *)
(* soulstruct/base/models/flver/mesh_tools.py.                             *)
(*                                                                         *)
(* Conventions.  Indices are 0-based as in the source; a sequence s is     *)
(* read at index k with At(s, k).  Normal components are written in        *)
(* hundredths, so a dot product is in ten-thousandths and the source's     *)
(* threshold -0.9 is -9000.  Position components and bone weights are small *)
(* integers standing for exact bit patterns (the raw key is byte          *)
(* identity).                                                              *)
(***************************************************************************)
EXTENDS Integers, Sequences, FiniteSets, TLC

At(s, k) == s[k + 1]

Range(s) == {s[k] : k \in DOMAIN s}

RECURSIVE SumLen(_)
SumLen(ss) == IF ss = <<>> THEN 0 ELSE Len(Head(ss).vertices) + SumLen(Tail(ss))

RECURSIVE Flatten(_)
Flatten(ss) == IF ss = <<>> THEN <<>> ELSE Head(ss) \o Flatten(Tail(ss))

(***************************************************************************)
(* Bounds of the model.                                                    *)
(***************************************************************************)
MaxSubmeshes == 2
MaxFaces == 2
MaxDefs == 2

(***************************************************************************)
(* Program constants.                                                      *)
(***************************************************************************)
\* `np.dot(vert_normal, existing_normal) < -0.9`, in ten-thousandths.
InvertedThreshold == -9000

\* A slot of `np.empty(..., dtype=np.uint32)` that was never written.
Uninit == -1
\* The values such a slot may be found to hold: a small index and a large one.
UninitValues == {0, 2147483647}

\* A position component that is not a number.
NaN == -999

(***************************************************************************)
(* Input data: vertex rows, normals, submeshes.                            *)
(***************************************************************************)
NormalP == <<100, 0, 0>>
NormalQ == <<-100, -100, 0>>
NormalN == <<-100, 200, 0>>
NormalB == <<-90, 0, 0>>
NormalM == <<-100, 0, 0>>

Dot(a, b) == a[1] * b[1] + a[2] * b[2] + a[3] * b[3]

VRow(p, w, b, n) == [position |-> p, bone_weights |-> w, bone_indices |-> b, normal |-> n]

\* Rows of a submesh vertex array: one position and bone data, five normals.  Bone indices
\* are local when the submesh has a table, so the same row under a different table is a
\* different raw key.
RowWith(n) == VRow(<<1, 2, 3>>, <<1, 0, 0, 0>>, <<0, 0, 0, 0>>, n)

NoTable == [present |-> FALSE, table |-> <<>>]
Table(t) == [present |-> TRUE, table |-> t]

\* Triangle lists of `face_sets[0].triangulate()` over a vertex array of two vertices:
\* one that uses both vertices (and repeats loop indices), one that leaves vertex 1
\* unreferenced.
MergeShapes == { << <<0, 1, 1>>, <<1, 0, 0>> >>, << <<0, 0, 0>> >> }

MergeSubmeshes ==
    { [vertices |-> <<RowWith(n0), RowWith(n1)>>, uv_count |-> 1, bone_indices |-> bt,
        triangles |-> ts] :
        n0 \in {NormalP, NormalN, NormalB}, n1 \in {NormalQ, NormalM},
        bt \in {NoTable, Table(<<5, 3>>)}, ts \in MergeShapes }

SubmeshLists(S) == UNION { [1..n -> S] : n \in 1..MaxSubmeshes }

VARIABLES
    pc,                     \* which part of the program runs
    submeshes,              \* flver.submeshes
    all_vertices,           \* build_stacked_loops: stacked (position, bone_weights, bone_indices)
    loop_normals,           \* MergedMesh.loop_normals
    vertex_indices_normals, \* merge_vertices: raw key -> (vertex index, first loop normal)
    inv_vertex_indices,     \* merge_vertices: raw key -> vertex index of the inverted variant
    reduced_vertex_indices, \* merge_vertices: loop index that created each vertex
    vertex_count,
    assigned_loop_indices,
    loop_vertex_indices,    \* MergedMesh.loop_vertex_indices
    loop_offset,
    cursor,                 \* merge_vertices: (submesh, triangle, corner) being processed
    vertex_data,            \* MergedMesh.vertex_data
    faces,                  \* MergedMesh.faces: rows (loop0, loop1, loop2, material tag)
    loop_uvs,               \* MergedMesh.loop_uvs: the UV layer names (keys)
    split_submesh_defs,     \* split_mesh arguments
    use_submesh_bone_indices,
    max_bones_per_submesh,
    unused_bone_indices_are_minus_one,
    merged_loops,           \* split_mesh: get_combined_loop_data's rows, one per loop
    material_index,         \* split_mesh: the material being gathered
    split_submesh_info,     \* split_mesh: (material_index, loop rows, bone table) per submesh
    submesh_loops,          \* subsplit_faces: the material's loop rows, three per face
    bone_indices,           \* subsplit_faces: global bone indices per loop row
    face_index,             \* subsplit_faces: the face being walked
    unique_indices,         \* subsplit_faces: running bone set, sentinel included
    subsplit_face_indices,
    subsplit_bone_indices,
    split_submeshes,        \* split_mesh: the emitted submeshes
    error                   \* the exception that ended the call, "" if none

mergeVars == <<submeshes, all_vertices, loop_normals, vertex_indices_normals, inv_vertex_indices,
               reduced_vertex_indices, vertex_count, assigned_loop_indices, loop_vertex_indices,
               loop_offset, cursor, vertex_data, faces>>

argVars == <<split_submesh_defs, use_submesh_bone_indices, max_bones_per_submesh,
             unused_bone_indices_are_minus_one>>

subsplitVars == <<submesh_loops, bone_indices, face_index, unique_indices, subsplit_face_indices,
                  subsplit_bone_indices>>

splitVars == <<loop_uvs, argVars, merged_loops, material_index, split_submesh_info, subsplitVars,
               split_submeshes, error>>

VARIABLES
    discard_degenerate_faces,   \* is_triangle_degenerate: the caller's two options
    discard_duplicate_faces,
    existing_face_set,          \* is_triangle_degenerate: the set shared by the caller's calls
    checked                     \* the calls made so far: (triangle, returned value)

filterVars == <<discard_degenerate_faces, discard_duplicate_faces, existing_face_set, checked>>

VARIABLES
    flver_submeshes,            \* flver.submeshes, as the caller holds them
    submesh_material_indices    \* from_flver: the caller's tags (empty: not given); then
                                \* merge_vertices: the tag of each valid submesh

sourceVars == <<flver_submeshes, submesh_material_indices>>

VARIABLES
    loop_tangents,              \* MergedMesh.loop_tangents: one array per tangent index
    loop_bitangents,            \* MergedMesh.loop_bitangents
    loop_vertex_colors,         \* MergedMesh.loop_vertex_colors: one array per color index
    loop_uv_arrays,             \* MergedMesh.loop_uvs: the array of each UV layer name
    views,                      \* the loop tables whose memory is a source submesh's array
    calls                       \* the transforms called on the MergedMesh, each with the
                                \* arrays as it found them

meshVars == <<loop_tangents, loop_bitangents, loop_vertex_colors, loop_uv_arrays, views, calls>>

extraVars == <<filterVars, sourceVars, meshVars>>

vars == <<pc, mergeVars, splitVars, extraVars>>

(***************************************************************************)
(* build_stacked_loops                                                     *)
(***************************************************************************)
\* Mutant: the local bone indices are kept as they are.
GlobalBoneIndices_Local(submesh, local) == local

\* Local bone indices remapped through the submesh's table, when it has one.
GlobalBoneIndices(submesh, local) ==
    IF submesh.bone_indices.present
    THEN [k \in 1..4 |-> At(submesh.bone_indices.table, local[k])]
    ELSE local

RawKey(submesh, row) ==
    [position |-> row.position, bone_weights |-> row.bone_weights,
     bone_indices |-> GlobalBoneIndices(submesh, row.bone_indices)]

StackedVertices(ss) ==
    Flatten([s \in 1..Len(ss) |-> [k \in 1..Len(ss[s].vertices) |-> RawKey(ss[s], ss[s].vertices[k])]])

\* `uv_layer_name = f"UVMap{uv_i}"`
DefaultUVName(i) == At(<<"UVMap0", "UVMap1", "UVMap2">>, i)

\* The keys of `loop_uvs`: one default name per `uv_{i}` field of any submesh.
StackedUVLayers(ss) == UNION { {DefaultUVName(i) : i \in 0..(ss[s].uv_count - 1)} : s \in 1..Len(ss) }

StackedNormals(ss) ==
    Flatten([s \in 1..Len(ss) |-> [k \in 1..Len(ss[s].vertices) |-> ss[s].vertices[k].normal]])

\* `field_names = vertices.dtype.names`, read off the rows.
FieldNames(submesh) == IF submesh.vertices = <<>> THEN {} ELSE DOMAIN submesh.vertices[1]

\* A loop table filled slice by slice, `table[i:j] = vertices[field]`, with the value given
\* to the submeshes that lack the field.
StackedField(ss, field, default) ==
    Flatten([s \in 1..Len(ss) |->
                [k \in 1..Len(ss[s].vertices) |->
                    IF field \in DOMAIN ss[s].vertices[k] THEN ss[s].vertices[k][field] ELSE default]])

\* `loop_bitangents[i:j] = [0.0, 0.0, 1.0, 1.0]`, in hundredths.
DefaultBitangent == <<0, 0, 100, 100>>

StackedBitangents(ss) == StackedField(ss, "bitangent", DefaultBitangent)

TangentFields == <<"tangent_0", "tangent_1">>
ColorFields == <<"color_0">>

\* `[loop_tangents_dict[i] for i in sorted(loop_tangents_dict)]`: one `np.zeros` table per
\* field that some submesh has.
StackedList(ss, fields) ==
    LET used == SelectSeq(fields, LAMBDA f : \E s \in DOMAIN ss : f \in FieldNames(ss[s]))
    IN  [i \in DOMAIN used |-> StackedField(ss, used[i], <<0, 0, 0, 0>>)]

UVField(i) == At(<<"uv_0", "uv_1", "uv_2">>, i)

\* The row of `uv_array[i:j] = vertices[name]` for one vertex; the layers of other submeshes,
\* and vertex rows written without UV values, are zeros.
UVValue(submesh, k, name) ==
    LET fields == { i \in 0..(submesh.uv_count - 1) :
                      DefaultUVName(i) = name /\ UVField(i) \in DOMAIN submesh.vertices[k] }
    IN  IF fields = {} THEN <<0, 0>> ELSE submesh.vertices[k][UVField(CHOOSE i \in fields : TRUE)]

StackedUVArrays(ss) ==
    [name \in StackedUVLayers(ss) |->
        Flatten([s \in 1..Len(ss) |-> [k \in 1..Len(ss[s].vertices) |-> UVValue(ss[s], k, name)]])]

\* Mutant: the remapped indices are written into the submesh's vertex rows.
SubmeshAfterStacking_RemapInPlace(submesh) ==
    [submesh EXCEPT !.vertices =
        [k \in DOMAIN submesh.vertices |->
            [submesh.vertices[k] EXCEPT
                !.bone_indices = GlobalBoneIndices(submesh, submesh.vertices[k].bone_indices)]]]

\* A submesh after build_stacked_loops has read it: `bone_indices =
\* submesh.bone_indices[bone_indices]` binds the local name to a new array, and every other
\* statement reads `vertices[...]` on its right-hand side only.
SubmeshAfterStacking(submesh) == submesh

\* The loop tables that share memory with a submesh's vertex array: every table comes from
\* `np.empty` or `np.zeros` and is filled by slice assignment, which copies.
SharedWithSubmeshes(ss) == {}

(***************************************************************************)
(* from_flver: entry, build_stacked_loops, then merge_vertices             *)
(***************************************************************************)
\* No triangle has been put to is_triangle_degenerate.
FilterIdle ==
    /\ discard_degenerate_faces = FALSE
    /\ discard_duplicate_faces = FALSE
    /\ existing_face_set = {}
    /\ checked = <<>>

\* No FLVER has been given to from_flver.
SourceIdle ==
    /\ flver_submeshes = <<>>
    /\ submesh_material_indices = <<>>

\* The loop tables that from_flver has not built, and no transform called.
MeshIdle ==
    /\ loop_tangents = <<>>
    /\ loop_bitangents = <<>>
    /\ loop_vertex_colors = <<>>
    /\ loop_uv_arrays = <<>>
    /\ views = {}
    /\ calls = <<>>

ExtraIdle == FilterIdle /\ SourceIdle /\ MeshIdle

\* No split_mesh call has been made.
SplitIdle ==
    /\ split_submesh_defs = <<>>
    /\ use_submesh_bone_indices = FALSE
    /\ max_bones_per_submesh = 0
    /\ unused_bone_indices_are_minus_one = FALSE
    /\ merged_loops = <<>>
    /\ material_index = 0
    /\ split_submesh_info = <<>>
    /\ submesh_loops = <<>>
    /\ bone_indices = <<>>
    /\ face_index = 0
    /\ unique_indices = {}
    /\ subsplit_face_indices = <<>>
    /\ subsplit_bone_indices = <<>>
    /\ split_submeshes = <<>>
    /\ error = ""

InitMerge ==
    /\ FilterIdle
    /\ MeshIdle
    /\ pc = "from_flver"
    /\ flver_submeshes \in SubmeshLists(MergeSubmeshes)
    /\ submesh_material_indices = <<>>
    /\ submeshes = <<>>
    /\ all_vertices = <<>>
    /\ loop_normals = <<>>
    /\ vertex_indices_normals = <<>>
    /\ inv_vertex_indices = <<>>
    /\ reduced_vertex_indices = <<>>
    /\ vertex_count = 0
    /\ assigned_loop_indices = {}
    /\ loop_vertex_indices = <<>>
    /\ loop_offset = 0
    /\ cursor = [s |-> 1, t |-> 1, c |-> 1]
    /\ vertex_data = <<>>
    /\ faces = <<>>
    /\ loop_uvs = {}
    /\ SplitIdle

\* Mutant: the submesh list is not looked at.
NoSubmeshes_Unchecked(ss) == FALSE

\* `if not flver.submeshes`
NoSubmeshes(ss) == ss = <<>>

\* `np.isnan(vertex_array.array["position"]).any()`
HasNaNPosition(submesh) ==
    \E k \in DOMAIN submesh.vertices : \E c \in 1..3 : submesh.vertices[k].position[c] = NaN

\* The places in flver.submeshes (from 1) of the submeshes that are kept, in order.
ValidSubmeshIndices(ss) ==
    SelectSeq([i \in 1..Len(ss) |-> i], LAMBDA i : ~HasNaNPosition(ss[i]))

\* `submesh_material_indices = list(range(len(flver.submeshes)))` when the caller gave none.
MaterialIndicesOrDefault(given, ss) ==
    IF given = <<>> THEN [i \in 1..Len(ss) |-> i - 1] ELSE given

\* The first submesh from place s on that has a triangle, Len(ss) + 1 if there is none: the
\* loop over the triangles of any submesh before it has no pass.
RECURSIVE NextWithTriangles(_, _)
NextWithTriangles(ss, s) ==
    IF s > Len(ss) THEN s
    ELSE IF ss[s].triangles # <<>> THEN s
    ELSE NextWithTriangles(ss, s + 1)

\* from_flver up to the first loop of merge_vertices: an empty submesh list is rejected;
\* submeshes with NaN positions are left out, the others keep their tag (their place in the
\* list when `submesh_material_indices` is not given); the stacked tables are built and
\* `loop_vertex_indices = np.empty(len(loop_normals))` is allocated, unwritten.
BuildStackedLoops ==
    /\ pc = "from_flver"
    /\ IF NoSubmeshes(flver_submeshes)
       THEN /\ pc' = "error"
            /\ error' = "ValueError: FLVER has no submeshes"
            /\ UNCHANGED <<flver_submeshes, submeshes, submesh_material_indices, all_vertices, loop_normals,
                           loop_vertex_indices, loop_uvs, loop_tangents, loop_bitangents,
                           loop_vertex_colors, loop_uv_arrays, views, cursor, loop_offset>>
       ELSE LET valid == ValidSubmeshIndices(flver_submeshes)
                valid_submeshes == [k \in DOMAIN valid |-> flver_submeshes[valid[k]]]
                tags == MaterialIndicesOrDefault(submesh_material_indices, flver_submeshes)
                first == NextWithTriangles(valid_submeshes, 1)
            IN  IF \E k \in DOMAIN valid : valid[k] > Len(tags)
                THEN \* `submesh_material_indices[i]` past the end of the caller's list
                     /\ pc' = "error"
                     /\ error' = "IndexError: list index out of range"
                     /\ UNCHANGED <<flver_submeshes, submeshes, submesh_material_indices, all_vertices,
                                    loop_normals, loop_vertex_indices, loop_uvs, loop_tangents,
                                    loop_bitangents, loop_vertex_colors, loop_uv_arrays, views, cursor,
                                    loop_offset>>
                ELSE /\ submeshes' = valid_submeshes
                     /\ submesh_material_indices' = [k \in DOMAIN valid |-> tags[valid[k]]]
                     /\ all_vertices' = StackedVertices(valid_submeshes)
                     /\ loop_normals' = StackedNormals(valid_submeshes)
                     /\ loop_vertex_indices' = [k \in 1..SumLen(valid_submeshes) |-> Uninit]
                     /\ loop_uvs' = StackedUVLayers(valid_submeshes)
                     /\ loop_uv_arrays' = StackedUVArrays(valid_submeshes)
                     /\ loop_tangents' = StackedList(valid_submeshes, TangentFields)
                     /\ loop_bitangents' = StackedBitangents(valid_submeshes)
                     /\ loop_vertex_colors' = StackedList(valid_submeshes, ColorFields)
                     /\ views' = SharedWithSubmeshes(valid_submeshes)
                     /\ flver_submeshes' =
                           [i \in DOMAIN flver_submeshes |->
                               IF HasNaNPosition(flver_submeshes[i]) THEN flver_submeshes[i]
                               ELSE SubmeshAfterStacking(flver_submeshes[i])]
                     /\ cursor' = [s |-> first, t |-> 1, c |-> 1]
                     /\ loop_offset' = SumLen(SubSeq(valid_submeshes, 1, first - 1))
                     /\ pc' = IF first > Len(valid_submeshes) THEN "merge_done" ELSE "merge"
                     /\ UNCHANGED error
    /\ UNCHANGED <<filterVars, calls, vertex_indices_normals, inv_vertex_indices, reduced_vertex_indices,
                   vertex_count, assigned_loop_indices, vertex_data, faces, argVars, merged_loops,
                   material_index, split_submesh_info, subsplitVars, split_submeshes>>

CurSubmesh == submeshes[cursor.s]

\* `triangles += loop_offset`: the current triangle in merged loop indices.
CurTriangle == [k \in 1..3 |-> CurSubmesh.triangles[cursor.t][k] + loop_offset]

CurLoop == CurTriangle[cursor.c]

\* Mutant: the tag is the submesh's place among the merged submeshes.
MaterialTag_ListIndex(s) == s - 1

\* The material tag of a valid submesh: the caller's tag, or its index in flver.submeshes
\* (`range(len(flver.submeshes))`), carried over in `valid_submesh_material_indices`.
MaterialTag(s) == submesh_material_indices[s]

\* The end of one pass of `for loop_index in triangle`: next corner; after the third the
\* triangle is appended with its tag; after the last triangle the offset moves on.
Advance ==
    IF cursor.c < 3
    THEN /\ cursor' = [cursor EXCEPT !.c = cursor.c + 1]
         /\ UNCHANGED <<faces, loop_offset, pc>>
    ELSE /\ faces' = Append(faces, CurTriangle \o <<MaterialTag(cursor.s)>>)
         /\ IF cursor.t < Len(CurSubmesh.triangles)
            THEN /\ cursor' = [cursor EXCEPT !.t = cursor.t + 1, !.c = 1]
                 /\ UNCHANGED <<loop_offset, pc>>
            ELSE LET next == NextWithTriangles(submeshes, cursor.s + 1)
                 IN  /\ cursor' = [s |-> next, t |-> 1, c |-> 1]
                     /\ loop_offset' = loop_offset + SumLen(SubSeq(submeshes, cursor.s, next - 1))
                     /\ pc' = IF next > Len(submeshes) THEN "merge_done" ELSE "merge"

\* Mutant: a key counts as present only when a loop of the submesh being walked made its vertex.
HasKey_ThisSubmesh(table, key) ==
    \E k \in DOMAIN table : table[k].key = key /\ At(reduced_vertex_indices, table[k].index) >= loop_offset

\* `vertex_indices_normals[vertex_hash]` / `inv_vertex_indices[vertex_hash]` without KeyError:
\* the dictionaries are made once, before the loop over the submeshes.
HasKey(table, key) == \E k \in DOMAIN table : table[k].key = key
Lookup(table, key) == table[CHOOSE k \in DOMAIN table : table[k].key = key]

\* Mutant: the threshold itself counts as inverted.
IsInverted_Inclusive(vert_normal, existing_normal) == Dot(vert_normal, existing_normal) <= InvertedThreshold

\* `np.dot(vert_normal, existing_normal) < -0.9`
IsInverted(vert_normal, existing_normal) == Dot(vert_normal, existing_normal) < InvertedThreshold

SetLoopVertex(loop_index, vertex_index) ==
    loop_vertex_indices' = [loop_vertex_indices EXCEPT ![loop_index + 1] = vertex_index]

\* Mutant: a loop index met again is given a vertex of its own.
LoopAlreadyAssigned_Reprocessed ==
    /\ pc = "merge"
    /\ CurLoop \in assigned_loop_indices
    /\ SetLoopVertex(CurLoop, vertex_count)
    /\ reduced_vertex_indices' = Append(reduced_vertex_indices, CurLoop)
    /\ vertex_count' = vertex_count + 1
    /\ Advance
    /\ UNCHANGED <<extraVars, submeshes, all_vertices, loop_normals, vertex_indices_normals, inv_vertex_indices,
                   assigned_loop_indices, vertex_data, splitVars>>

\* `if loop_index in assigned_loop_indices: continue`
LoopAlreadyAssigned ==
    /\ pc = "merge"
    /\ CurLoop \in assigned_loop_indices
    /\ Advance
    /\ UNCHANGED <<extraVars, submeshes, all_vertices, loop_normals, vertex_indices_normals, inv_vertex_indices,
                   reduced_vertex_indices, vertex_count, assigned_loop_indices, loop_vertex_indices,
                   vertex_data, splitVars>>

\* KeyError on the primary table: first time this raw key is met.
LoopNewVertex ==
    /\ pc = "merge"
    /\ CurLoop \notin assigned_loop_indices
    /\ ~HasKey(vertex_indices_normals, At(all_vertices, CurLoop))
    /\ assigned_loop_indices' = assigned_loop_indices \cup {CurLoop}
    /\ vertex_indices_normals' = Append(vertex_indices_normals,
            [key |-> At(all_vertices, CurLoop), index |-> vertex_count,
             normal |-> At(loop_normals, CurLoop)])
    /\ SetLoopVertex(CurLoop, vertex_count)
    /\ reduced_vertex_indices' = Append(reduced_vertex_indices, CurLoop)
    /\ vertex_count' = vertex_count + 1
    /\ Advance
    /\ UNCHANGED <<extraVars, submeshes, all_vertices, loop_normals, inv_vertex_indices, vertex_data, splitVars>>

\* Mutant: the new inverted vertex is not recorded in the secondary table.
LoopNewInvertedVertex_Unrecorded ==
    /\ pc = "merge"
    /\ CurLoop \notin assigned_loop_indices
    /\ HasKey(vertex_indices_normals, At(all_vertices, CurLoop))
    /\ IsInverted(At(loop_normals, CurLoop), Lookup(vertex_indices_normals, At(all_vertices, CurLoop)).normal)
    /\ ~HasKey(inv_vertex_indices, At(all_vertices, CurLoop))
    /\ assigned_loop_indices' = assigned_loop_indices \cup {CurLoop}
    /\ reduced_vertex_indices' = Append(reduced_vertex_indices, CurLoop)
    /\ SetLoopVertex(CurLoop, vertex_count)
    /\ vertex_count' = vertex_count + 1
    /\ Advance
    /\ UNCHANGED <<extraVars, submeshes, all_vertices, loop_normals, vertex_indices_normals, inv_vertex_indices,
                   vertex_data, splitVars>>

\* Primary hit, normal near-inverted, KeyError on the secondary table.
LoopNewInvertedVertex ==
    /\ pc = "merge"
    /\ CurLoop \notin assigned_loop_indices
    /\ HasKey(vertex_indices_normals, At(all_vertices, CurLoop))
    /\ IsInverted(At(loop_normals, CurLoop), Lookup(vertex_indices_normals, At(all_vertices, CurLoop)).normal)
    /\ ~HasKey(inv_vertex_indices, At(all_vertices, CurLoop))
    /\ assigned_loop_indices' = assigned_loop_indices \cup {CurLoop}
    /\ inv_vertex_indices' = Append(inv_vertex_indices,
            [key |-> At(all_vertices, CurLoop), index |-> vertex_count])
    /\ reduced_vertex_indices' = Append(reduced_vertex_indices, CurLoop)
    /\ SetLoopVertex(CurLoop, vertex_count)
    /\ vertex_count' = vertex_count + 1
    /\ Advance
    /\ UNCHANGED <<extraVars, submeshes, all_vertices, loop_normals, vertex_indices_normals, vertex_data, splitVars>>

\* Mutant: the inverted vertex is reused only if the loop's normal is compatible with the
\* normal of the loop that created it; otherwise one more vertex is made.
LoopReuseInverted_Compared ==
    /\ pc = "merge"
    /\ CurLoop \notin assigned_loop_indices
    /\ HasKey(vertex_indices_normals, At(all_vertices, CurLoop))
    /\ IsInverted(At(loop_normals, CurLoop), Lookup(vertex_indices_normals, At(all_vertices, CurLoop)).normal)
    /\ HasKey(inv_vertex_indices, At(all_vertices, CurLoop))
    /\ assigned_loop_indices' = assigned_loop_indices \cup {CurLoop}
    /\ IF IsInverted(At(loop_normals, CurLoop),
                     At(loop_normals, At(reduced_vertex_indices,
                                         Lookup(inv_vertex_indices, At(all_vertices, CurLoop)).index)))
       THEN /\ SetLoopVertex(CurLoop, vertex_count)
            /\ reduced_vertex_indices' = Append(reduced_vertex_indices, CurLoop)
            /\ vertex_count' = vertex_count + 1
       ELSE /\ SetLoopVertex(CurLoop, Lookup(inv_vertex_indices, At(all_vertices, CurLoop)).index)
            /\ UNCHANGED <<reduced_vertex_indices, vertex_count>>
    /\ Advance
    /\ UNCHANGED <<extraVars, submeshes, all_vertices, loop_normals, vertex_indices_normals, inv_vertex_indices,
                   vertex_data, splitVars>>

\* Primary hit, normal near-inverted, secondary hit: reuse, no normal check.
LoopReuseInverted ==
    /\ pc = "merge"
    /\ CurLoop \notin assigned_loop_indices
    /\ HasKey(vertex_indices_normals, At(all_vertices, CurLoop))
    /\ IsInverted(At(loop_normals, CurLoop), Lookup(vertex_indices_normals, At(all_vertices, CurLoop)).normal)
    /\ HasKey(inv_vertex_indices, At(all_vertices, CurLoop))
    /\ assigned_loop_indices' = assigned_loop_indices \cup {CurLoop}
    /\ SetLoopVertex(CurLoop, Lookup(inv_vertex_indices, At(all_vertices, CurLoop)).index)
    /\ Advance
    /\ UNCHANGED <<extraVars, submeshes, all_vertices, loop_normals, vertex_indices_normals, inv_vertex_indices,
                   reduced_vertex_indices, vertex_count, vertex_data, splitVars>>

\* Mutant: a loop merged into the primary vertex becomes the key's representative.
LoopReusePrimary_Updating ==
    /\ pc = "merge"
    /\ CurLoop \notin assigned_loop_indices
    /\ HasKey(vertex_indices_normals, At(all_vertices, CurLoop))
    /\ ~IsInverted(At(loop_normals, CurLoop), Lookup(vertex_indices_normals, At(all_vertices, CurLoop)).normal)
    /\ assigned_loop_indices' = assigned_loop_indices \cup {CurLoop}
    /\ SetLoopVertex(CurLoop, Lookup(vertex_indices_normals, At(all_vertices, CurLoop)).index)
    /\ vertex_indices_normals' =
          [k \in DOMAIN vertex_indices_normals |->
              IF vertex_indices_normals[k].key = At(all_vertices, CurLoop)
              THEN [vertex_indices_normals[k] EXCEPT !.normal = At(loop_normals, CurLoop)]
              ELSE vertex_indices_normals[k]]
    /\ Advance
    /\ UNCHANGED <<extraVars, submeshes, all_vertices, loop_normals, inv_vertex_indices,
                   reduced_vertex_indices, vertex_count, vertex_data, splitVars>>

\* Primary hit, normal close enough: reuse the existing vertex.
LoopReusePrimary ==
    /\ pc = "merge"
    /\ CurLoop \notin assigned_loop_indices
    /\ HasKey(vertex_indices_normals, At(all_vertices, CurLoop))
    /\ ~IsInverted(At(loop_normals, CurLoop), Lookup(vertex_indices_normals, At(all_vertices, CurLoop)).normal)
    /\ assigned_loop_indices' = assigned_loop_indices \cup {CurLoop}
    /\ SetLoopVertex(CurLoop, Lookup(vertex_indices_normals, At(all_vertices, CurLoop)).index)
    /\ Advance
    /\ UNCHANGED <<extraVars, submeshes, all_vertices, loop_normals, vertex_indices_normals, inv_vertex_indices,
                   reduced_vertex_indices, vertex_count, vertex_data, splitVars>>

\* What a read of `loop_vertex_indices` finds: written slots as written, unwritten slots
\* with whatever the allocation held.
ReadLoopVertexIndices(lvi) ==
    { r \in [DOMAIN lvi -> Range(lvi) \cup UninitValues] :
        \A k \in DOMAIN lvi : IF lvi[k] = Uninit THEN r[k] \in UninitValues ELSE r[k] = lvi[k] }

\* `np.column_stack([submesh_faces_list, np.full(...)])` has four columns for a submesh with
\* triangles and two for a submesh without any (an empty list is a 1-D array of length 0):
\* whether the blocks of the submeshes differ in width.
MismatchedFaceBlocks(ss) ==
    /\ \E s \in DOMAIN ss : ss[s].triangles = <<>>
    /\ \E s \in DOMAIN ss : ss[s].triangles # <<>>

\* The tail of merge_vertices and the construction of the MergedMesh.
MergeFinish ==
    /\ pc = "merge_done"
    /\ IF submeshes = <<>>
       THEN \* `np.row_stack(all_submesh_faces)` of an empty list
            /\ pc' = "error"
            /\ error' = "ValueError: need at least one array to concatenate"
            /\ UNCHANGED <<vertex_data, loop_vertex_indices>>
       ELSE IF MismatchedFaceBlocks(submeshes)
       THEN \* `np.row_stack` of blocks with four columns and blocks with two
            /\ pc' = "error"
            /\ error' = "ValueError: all the input array dimensions except for the concatenation axis must match exactly"
            /\ UNCHANGED <<vertex_data, loop_vertex_indices>>
       ELSE /\ vertex_data' = [k \in DOMAIN reduced_vertex_indices |->
                                  At(all_vertices, reduced_vertex_indices[k])]
            /\ loop_vertex_indices' \in ReadLoopVertexIndices(loop_vertex_indices)
            /\ pc' = "merged"
            /\ UNCHANGED error
    /\ UNCHANGED <<extraVars, submeshes, all_vertices, loop_normals, vertex_indices_normals, inv_vertex_indices,
                   reduced_vertex_indices, vertex_count, assigned_loop_indices, loop_offset, cursor,
                   faces, loop_uvs, argVars, merged_loops, material_index, split_submesh_info,
                   subsplitVars, split_submeshes>>

NextMerge ==
    \/ BuildStackedLoops
    \/ LoopAlreadyAssigned
    \/ LoopNewVertex
    \/ LoopNewInvertedVertex
    \/ LoopReuseInverted
    \/ LoopReusePrimary
    \/ MergeFinish

SpecMerge == InitMerge /\ [][NextMerge]_vars

(***************************************************************************)
(* split_mesh                                                              *)
(***************************************************************************)
Min(S) == CHOOSE x \in S : \A y \in S : x <= y
Max(S) == CHOOSE x \in S : \A y \in S : x >= y

\* `sorted(...)` of a set of integers
RECURSIVE Sorted(_)
Sorted(S) == IF S = {} THEN <<>> ELSE <<Min(S)>> \o Sorted(S \ {Min(S)})

\* A bone slot count of the vertex dtype: `("bone_indices", "i", 4)`.
BoneSlots == 4

\* `uv_layer_names` of a SplitSubmeshDef: None, or a list of names.
NoNames == [given |-> FALSE, names |-> <<>>]
Names(ns) == [given |-> TRUE, names |-> ns]

\* get_validated_uv_layer_names: "" when the names pass, else the exception raised.
UVValidationError(def, global_uv_layer_names) ==
    LET uv_layer_names == IF def.uv_layer_names.names = <<>>
                          THEN [i \in 1..def.uv_count |-> DefaultUVName(i - 1)]
                          ELSE def.uv_layer_names.names
    IN  IF ~def.uv_layer_names.given THEN "TypeError: len(None)"
        ELSE IF Len(def.uv_layer_names.names) # def.uv_count THEN "ValueError: uv count"
        ELSE IF \E k \in DOMAIN uv_layer_names : uv_layer_names[k] \notin global_uv_layer_names
             THEN "ValueError: uv layer name"
        ELSE ""

ValidatedUVLayerNames(def) ==
    IF def.uv_layer_names.names = <<>>
    THEN [i \in 1..def.uv_count |-> DefaultUVName(i - 1)]
    ELSE def.uv_layer_names.names

\* Mutant: the bone limit is not checked on entry.
SplitCheckBones_Missing ==
    /\ pc = "split_mesh"
    /\ pc' = "validate"
    /\ UNCHANGED <<extraVars, mergeVars, loop_uvs, argVars, merged_loops, material_index, split_submesh_info,
                   subsplitVars, split_submeshes, error>>

\* `if use_submesh_bone_indices and max_bones_per_submesh < 3: raise ValueError`
SplitCheckBones ==
    /\ pc = "split_mesh"
    /\ IF use_submesh_bone_indices /\ max_bones_per_submesh < 3
       THEN pc' = "error" /\ error' = "ValueError: max_bones_per_submesh"
       ELSE pc' = "validate" /\ UNCHANGED error
    /\ UNCHANGED <<extraVars, mergeVars, loop_uvs, argVars, merged_loops, material_index, split_submesh_info,
                   subsplitVars, split_submeshes>>

\* Mutant: only the definitions whose material has faces are validated.
SplitValidate_FacesOnly ==
    /\ pc = "validate"
    /\ LET bad == {i \in DOMAIN split_submesh_defs :
                       /\ UVValidationError(split_submesh_defs[i], loop_uvs) # ""
                       /\ \E k \in DOMAIN faces : faces[k][4] = i - 1}
       IN  IF bad # {}
           THEN pc' = "error" /\ error' = UVValidationError(split_submesh_defs[Min(bad)], loop_uvs)
           ELSE pc' = "combine" /\ UNCHANGED error
    /\ UNCHANGED <<extraVars, mergeVars, loop_uvs, argVars, merged_loops, material_index, split_submesh_info,
                   subsplitVars, split_submeshes>>

\* The list comprehension over get_validated_uv_layer_names: the first definition that fails
\* raises.
SplitValidate ==
    /\ pc = "validate"
    /\ LET bad == {i \in DOMAIN split_submesh_defs :
                       UVValidationError(split_submesh_defs[i], loop_uvs) # ""}
       IN  IF bad # {}
           THEN pc' = "error" /\ error' = UVValidationError(split_submesh_defs[Min(bad)], loop_uvs)
           ELSE pc' = "combine" /\ UNCHANGED error
    /\ UNCHANGED <<extraVars, mergeVars, loop_uvs, argVars, merged_loops, material_index, split_submesh_info,
                   subsplitVars, split_submeshes>>

\* The field names of `combined_dtype` that are UV layers.
CombinedUVNames == UNION { Range(ValidatedUVLayerNames(split_submesh_defs[i])) : i \in DOMAIN split_submesh_defs }

\* get_combined_loop_data: vertex data repeated in every loop that uses it.
CombinedLoopData ==
    [l \in DOMAIN loop_vertex_indices |->
        LET v == At(vertex_data, loop_vertex_indices[l])
        IN  [position |-> v.position, bone_weights |-> v.bone_weights,
             bone_indices |-> v.bone_indices, normal |-> loop_normals[l]]]

\* The dtypes and get_combined_loop_data: indexing `vertex_data` by `loop_vertex_indices`
\* raises on an index out of range; assigning a `loop_uvs` layer that is no field of the
\* combined dtype raises.
SplitCombine ==
    /\ pc = "combine"
    /\ IF \E l \in DOMAIN loop_vertex_indices : loop_vertex_indices[l] \notin 0..(Len(vertex_data) - 1)
       THEN pc' = "error" /\ error' = "IndexError: loop_vertex_indices" /\ UNCHANGED merged_loops
       ELSE IF \E name \in loop_uvs : name \notin CombinedUVNames
       THEN pc' = "error" /\ error' = "ValueError: no field of name" /\ UNCHANGED merged_loops
       ELSE pc' = "gather" /\ merged_loops' = CombinedLoopData /\ UNCHANGED error
    /\ material_index' = 0
    /\ UNCHANGED <<extraVars, mergeVars, loop_uvs, argVars, split_submesh_info, subsplitVars, split_submeshes>>

\* `self.faces[self.faces[:, 3] == material_index][:, :3]`
SubmeshFaces(m) == SelectSeq(faces, LAMBDA f : f[4] = m)

\* `submesh_faces.ravel()`
RECURSIVE Ravel(_)
Ravel(fs) == IF fs = <<>> THEN <<>> ELSE <<Head(fs)[1], Head(fs)[2], Head(fs)[3]>> \o Ravel(Tail(fs))

\* Where split_mesh goes once a material is finished: the next material, or the emission of
\* the gathered submeshes (none to emit: the empty list is returned).
AfterMaterial(info) ==
    /\ material_index' = material_index + 1
    /\ pc' = IF material_index + 1 < Len(split_submesh_defs) THEN "gather"
             ELSE IF info = <<>> THEN "split_done" ELSE "emit"

\* Mutant: out-of-range loop indices are clipped to the last loop instead of raising.
GatherLoops_Clipped(submesh_loop_indices) ==
    [raises |-> FALSE,
     rows |-> [k \in DOMAIN submesh_loop_indices |->
                 At(merged_loops, IF submesh_loop_indices[k] >= Len(merged_loops)
                                  THEN Len(merged_loops) - 1 ELSE submesh_loop_indices[k])]]

\* `dtype_view[submesh_loop_indices]`: raises IndexError on an index past the loop tables.
GatherLoops(submesh_loop_indices) ==
    IF \E k \in DOMAIN submesh_loop_indices : submesh_loop_indices[k] >= Len(merged_loops)
    THEN [raises |-> TRUE, rows |-> <<>>]
    ELSE [raises |-> FALSE,
          rows |-> [k \in DOMAIN submesh_loop_indices |-> At(merged_loops, submesh_loop_indices[k])]]

\* Mutant: a material without faces is processed like any other.
UnusedMaterial_Never(submesh_faces) == FALSE

\* `if len(submesh_faces) == 0: continue`
UnusedMaterial(submesh_faces) == Len(submesh_faces) = 0

\* One pass of `for material_index, ... in enumerate(global_uv_material_dtypes)`, up to the
\* call of subsplit_faces (or the direct append).
SplitGather ==
    /\ pc = "gather"
    /\ LET submesh_faces == SubmeshFaces(material_index)
           gathered == GatherLoops(Ravel(submesh_faces))
           rows == gathered.rows
           is_bind_pose == At(split_submesh_defs, material_index).is_bind_pose
       IN  IF UnusedMaterial(submesh_faces)
           THEN /\ AfterMaterial(split_submesh_info)
                /\ UNCHANGED <<split_submesh_info, subsplitVars, error>>
           ELSE IF gathered.raises
           THEN /\ pc' = "error"
                /\ error' = "IndexError: loop index"
                /\ UNCHANGED <<material_index, split_submesh_info, subsplitVars>>
           ELSE IF use_submesh_bone_indices
           THEN /\ pc' = "subsplit"
                /\ submesh_loops' = rows
                /\ bone_indices' =
                      IF is_bind_pose /\ ~unused_bone_indices_are_minus_one
                      THEN [k \in DOMAIN rows |->
                              [j \in 1..BoneSlots |-> IF rows[k].bone_weights[j] = 0 THEN -1
                                                      ELSE rows[k].bone_indices[j]]]
                      ELSE [k \in DOMAIN rows |-> rows[k].bone_indices]
                /\ face_index' = 0
                /\ unique_indices' = {-1}
                /\ subsplit_face_indices' = <<0>>
                /\ subsplit_bone_indices' = <<>>
                /\ UNCHANGED <<material_index, split_submesh_info, error>>
           ELSE /\ split_submesh_info' = Append(split_submesh_info,
                      [material_index |-> material_index, loops |-> rows, bone_indices |-> NoTable])
                /\ AfterMaterial(split_submesh_info')
                /\ UNCHANGED <<subsplitVars, error>>
    /\ UNCHANGED <<extraVars, mergeVars, loop_uvs, argVars, merged_loops, split_submeshes>>

\* Mutant: the bone references of the face's first loop only.
FaceBoneIndices_FirstLoop(f) ==
    Range(At(bone_indices, 3 * f))

\* `set(face_bone_indices)`: the 12 bone references of a face.
FaceBoneIndices(f) ==
    UNION { Range(At(bone_indices, 3 * f + c)) : c \in 0..2 }

\* Mutant: the boundary is placed as soon as the union reaches the limit.
SubsplitFace_AtLimit ==
    /\ pc = "subsplit"
    /\ face_index < Len(submesh_loops) \div 3
    /\ LET new_indices == unique_indices \cup FaceBoneIndices(face_index)
       IN  IF Cardinality(new_indices) >= max_bones_per_submesh + 1
           THEN /\ subsplit_face_indices' = Append(subsplit_face_indices, face_index)
                /\ subsplit_bone_indices' = Append(subsplit_bone_indices, Sorted(unique_indices \ {-1}))
                /\ unique_indices' = {-1} \cup FaceBoneIndices(face_index)
           ELSE /\ unique_indices' = new_indices
                /\ UNCHANGED <<subsplit_face_indices, subsplit_bone_indices>>
    /\ face_index' = face_index + 1
    /\ UNCHANGED <<extraVars, pc, mergeVars, loop_uvs, argVars, merged_loops, material_index, split_submesh_info,
                   submesh_loops, bone_indices, split_submeshes, error>>

\* One pass of `for face_index, face_bone_indices in enumerate(all_face_bone_indices)`.
SubsplitFace ==
    /\ pc = "subsplit"
    /\ face_index < Len(submesh_loops) \div 3
    /\ LET new_indices == unique_indices \cup FaceBoneIndices(face_index)
       IN  IF Cardinality(new_indices) > max_bones_per_submesh + 1
           THEN /\ subsplit_face_indices' = Append(subsplit_face_indices, face_index)
                /\ subsplit_bone_indices' = Append(subsplit_bone_indices, Sorted(unique_indices \ {-1}))
                /\ unique_indices' = {-1} \cup FaceBoneIndices(face_index)
           ELSE /\ unique_indices' = new_indices
                /\ UNCHANGED <<subsplit_face_indices, subsplit_bone_indices>>
    /\ face_index' = face_index + 1
    /\ UNCHANGED <<extraVars, pc, mergeVars, loop_uvs, argVars, merged_loops, material_index, split_submesh_info,
                   submesh_loops, bone_indices, split_submeshes, error>>

\* make_bone_indices_local raises on an empty array: `.min()` of a zero-size array.
MakeLocalRaises(subsplit_global_bone_indices, submesh_bone_indices) ==
    subsplit_global_bone_indices = <<>> \/ submesh_bone_indices = <<>>

\* Mutant: the lookup table is filled at the bone indices themselves, not at their offsets
\* from the lowest value.
MakeBoneIndicesLocal_Unshifted(subsplit_global_bone_indices, submesh_bone_indices) ==
    LET values == UNION { Range(subsplit_global_bone_indices[k]) : k \in DOMAIN subsplit_global_bone_indices }
        lo == Min(values \cup Range(submesh_bone_indices))
        hi == Max(values \cup Range(submesh_bone_indices))
        lut == [x \in 0..(hi - lo) |->
                  IF \E j \in DOMAIN submesh_bone_indices : submesh_bone_indices[j] = x
                  THEN (CHOOSE j \in DOMAIN submesh_bone_indices : submesh_bone_indices[j] = x) - 1
                  ELSE 0]
    IN  [k \in DOMAIN subsplit_global_bone_indices |->
            [j \in 1..BoneSlots |-> lut[subsplit_global_bone_indices[k][j] - lo]]]

\* make_bone_indices_local: the offset lookup table, then `lut[bone_indices - lo]`.
MakeBoneIndicesLocal(subsplit_global_bone_indices, submesh_bone_indices) ==
    LET values == UNION { Range(subsplit_global_bone_indices[k]) : k \in DOMAIN subsplit_global_bone_indices }
        lo == Min(values \cup Range(submesh_bone_indices))
        hi == Max(values \cup Range(submesh_bone_indices))
        lut == [x \in 0..(hi - lo) |->
                  IF \E j \in DOMAIN submesh_bone_indices : submesh_bone_indices[j] - lo = x
                  THEN (CHOOSE j \in DOMAIN submesh_bone_indices : submesh_bone_indices[j] - lo = x) - 1
                  ELSE 0]
    IN  [k \in DOMAIN subsplit_global_bone_indices |->
            [j \in 1..BoneSlots |-> lut[subsplit_global_bone_indices[k][j] - lo]]]

\* Mutant: every subsplit's slice starts at the first loop row.
SubsplitRows_FromStart(face_indices, i) == 1..(3 * face_indices[i + 1])

\* `loops_start, loops_end = face_start * 3, face_end * 3`: the rows of
\* `submesh_loops[loops_start:loops_end]`, numbered from 1.
SubsplitRows(face_indices, i) == (3 * face_indices[i] + 1)..(3 * face_indices[i + 1])

\* A basic slice `array[loops_start:loops_end]` read out as a sequence.
SelectRows(array, rows) ==
    [k \in 1..Cardinality(rows) |-> array[Min(rows) + k - 1]]

\* `bone_indices = submesh_loops["bone_indices"]` is a view of `submesh_loops`; it is replaced
\* by a copy only under `if is_bind_pose: if not unused_bone_indices_are_minus_one:`.
BoneIndicesIsView(is_bind_pose) == ~(is_bind_pose /\ ~unused_bone_indices_are_minus_one)

\* One pass of `for i, face_start in enumerate(subsplit_face_indices[:-1])`: `subsplit_loops`
\* is a view, so the assignment of the local indices lands in `submesh_loops`, and in
\* `bone_indices` too when that is a view.
WriteLocal(arrays, is_view, face_indices, bone_tables, i) ==
    LET rows == SubsplitRows(face_indices, i)
        local == MakeBoneIndicesLocal(SelectRows(arrays.bone_indices, rows), bone_tables[i])
        written == [k \in DOMAIN arrays.submesh_loops |->
                       IF k \in rows
                       THEN [arrays.submesh_loops[k] EXCEPT !.bone_indices = local[k - Min(rows) + 1]]
                       ELSE arrays.submesh_loops[k]]
    IN  [submesh_loops |-> written,
         bone_indices |-> IF is_view THEN [k \in DOMAIN written |-> written[k].bone_indices]
                          ELSE arrays.bone_indices]

\* The two arrays after the first n passes of that loop.
RECURSIVE LocalizedThrough(_, _, _, _, _)
LocalizedThrough(arrays, is_view, face_indices, bone_tables, n) ==
    IF n = 0 THEN arrays
    ELSE WriteLocal(LocalizedThrough(arrays, is_view, face_indices, bone_tables, n - 1),
                    is_view, face_indices, bone_tables, n)

\* Whether one of the first n passes raises in make_bone_indices_local.
RECURSIVE RaisesThrough(_, _, _, _, _)
RaisesThrough(arrays, is_view, face_indices, bone_tables, n) ==
    IF n = 0 THEN FALSE
    ELSE \/ RaisesThrough(arrays, is_view, face_indices, bone_tables, n - 1)
         \/ MakeLocalRaises(
                SelectRows(LocalizedThrough(arrays, is_view, face_indices, bone_tables, n - 1).bone_indices,
                           SubsplitRows(face_indices, n)),
                bone_tables[n])

\* The end of subsplit_faces: the last subsplit is closed, every subsplit's loops get local
\* bone indices, and the subsplits join `split_submesh_info`.
SubsplitFinish ==
    /\ pc = "subsplit"
    /\ face_index = Len(submesh_loops) \div 3
    /\ LET face_indices == Append(subsplit_face_indices, Len(submesh_loops) \div 3)
           bone_tables == Append(subsplit_bone_indices, Sorted(unique_indices \ {-1}))
           is_view == BoneIndicesIsView(At(split_submesh_defs, material_index).is_bind_pose)
           arrays == [submesh_loops |-> submesh_loops, bone_indices |-> bone_indices]
           count == Len(face_indices) - 1
           passed == Max({n \in 0..count : ~RaisesThrough(arrays, is_view, face_indices, bone_tables, n)})
           written == LocalizedThrough(arrays, is_view, face_indices, bone_tables, passed)
           all_subsplits ==
               [i \in 1..count |->
                   [material_index |-> material_index,
                    loops |-> SelectRows(written.submesh_loops, SubsplitRows(face_indices, i)),
                    bone_indices |-> Table(bone_tables[i])]]
       IN  /\ subsplit_face_indices' = face_indices
           /\ subsplit_bone_indices' = bone_tables
           /\ submesh_loops' = written.submesh_loops
           /\ bone_indices' = written.bone_indices
           /\ IF passed < count
              THEN /\ pc' = "error"
                   /\ error' = "ValueError: zero-size array"
                   /\ UNCHANGED <<material_index, split_submesh_info>>
              ELSE /\ split_submesh_info' = split_submesh_info \o all_subsplits
                   /\ AfterMaterial(split_submesh_info')
                   /\ UNCHANGED error
    /\ UNCHANGED <<extraVars, mergeVars, loop_uvs, argVars, merged_loops, face_index,
                   unique_indices, split_submeshes>>

\* `np.unique(..., axis=0)` unsorted again: the distinct rows in first-occurrence order.
RECURSIVE UniqueRows(_)
UniqueRows(rows) ==
    IF rows = <<>> THEN <<>>
    ELSE LET init == UniqueRows(SubSeq(rows, 1, Len(rows) - 1))
             last == rows[Len(rows)]
         IN  IF last \in Range(init) THEN init ELSE Append(init, last)

IndexOf(seq, x) == (CHOOSE k \in DOMAIN seq : seq[k] = x) - 1

\* One pass of `for material_index, submesh_loops, submesh_bone_indices in split_submesh_info`.
SplitEmit ==
    /\ pc = "emit"
    /\ LET info == split_submesh_info[Len(split_submeshes) + 1]
           submesh_vertices == UniqueRows(info.loops)
           face_vertex_indices == [k \in DOMAIN info.loops |-> IndexOf(submesh_vertices, info.loops[k])]
           final_vertices ==
               IF unused_bone_indices_are_minus_one
               THEN [k \in DOMAIN submesh_vertices |->
                       [submesh_vertices[k] EXCEPT !.bone_indices =
                           [j \in 1..BoneSlots |-> IF @[j] = -1 THEN 0 ELSE @[j]]]]
               ELSE submesh_vertices
       IN  split_submeshes' = Append(split_submeshes,
               [material_index |-> info.material_index, vertices |-> final_vertices,
                face_vertex_indices |-> face_vertex_indices, bone_indices |-> info.bone_indices])
    /\ pc' = IF Len(split_submeshes) + 1 = Len(split_submesh_info) THEN "split_done" ELSE "emit"
    /\ UNCHANGED <<extraVars, mergeVars, loop_uvs, argVars, merged_loops, material_index, split_submesh_info,
                   subsplitVars, error>>

NextSplit ==
    \/ SplitCheckBones
    \/ SplitValidate
    \/ SplitCombine
    \/ SplitGather
    \/ SubsplitFace
    \/ SubsplitFinish
    \/ SplitEmit

(***************************************************************************)
(* split_mesh on a MergedMesh built by the caller                          *)
(***************************************************************************)
KeyRow(p, w, b) == [position |-> p, bone_weights |-> w, bone_indices |-> b]

\* A vertex table: four vertices on one bone each (unused slots zero), one on four bones,
\* one with no weight at all, one with unused slots already marked -1.
SplitVertexData ==
    << KeyRow(<<0, 0, 0>>, <<1, 0, 0, 0>>, <<0, 0, 0, 0>>),
       KeyRow(<<1, 0, 0>>, <<1, 0, 0, 0>>, <<1, 0, 0, 0>>),
       KeyRow(<<2, 0, 0>>, <<1, 0, 0, 0>>, <<2, 0, 0, 0>>),
       KeyRow(<<3, 0, 0>>, <<1, 0, 0, 0>>, <<3, 0, 0, 0>>),
       KeyRow(<<4, 0, 0>>, <<1, 1, 1, 1>>, <<4, 5, 6, 7>>),
       KeyRow(<<5, 0, 0>>, <<0, 0, 0, 0>>, <<0, 0, 0, 0>>),
       KeyRow(<<6, 0, 0>>, <<1, 0, 0, 0>>, <<2, -1, -1, -1>>) >>

\* Face rows over the seven loops (one per vertex): the last two name a loop that does not
\* exist and a material tag past every definition list of the model.
SplitFaceRows ==
    { <<0, 0, 0, 0>>, <<0, 1, 2, 0>>, <<3, 3, 3, 0>>, <<4, 4, 4, 0>>, <<5, 5, 5, 0>>,
      <<6, 6, 6, 1>>, <<3, 3, 3, 1>>, <<0, 1, 7, 1>>, <<0, 0, 0, MaxDefs>> }

SplitDefs ==
    { [is_bind_pose |-> b, uv_layer_names |-> Names(<<"UVMap0">>), uv_count |-> 1] : b \in BOOLEAN }

MergeIdle ==
    /\ submeshes = <<>>
    /\ all_vertices = <<>>
    /\ vertex_indices_normals = <<>>
    /\ inv_vertex_indices = <<>>
    /\ reduced_vertex_indices = <<>>
    /\ vertex_count = 0
    /\ assigned_loop_indices = {}
    /\ loop_offset = 0
    /\ cursor = [s |-> 1, t |-> 1, c |-> 1]

InitSplit ==
    /\ ExtraIdle
    /\ pc = "split_mesh"
    /\ MergeIdle
    /\ vertex_data = SplitVertexData
    /\ loop_vertex_indices = [k \in DOMAIN SplitVertexData |-> k - 1]
    /\ loop_normals = [k \in DOMAIN SplitVertexData |-> NormalP]
    /\ loop_uvs \in {{"UVMap0"}, {}}
    /\ faces \in UNION { [1..n -> SplitFaceRows] : n \in 0..MaxFaces }
    /\ split_submesh_defs \in UNION { [1..n -> SplitDefs] : n \in 1..MaxDefs }
    /\ use_submesh_bone_indices \in BOOLEAN
    /\ max_bones_per_submesh \in {2, 3}
    /\ unused_bone_indices_are_minus_one \in BOOLEAN
    /\ merged_loops = <<>>
    /\ material_index = 0
    /\ split_submesh_info = <<>>
    /\ submesh_loops = <<>>
    /\ bone_indices = <<>>
    /\ face_index = 0
    /\ unique_indices = {}
    /\ subsplit_face_indices = <<>>
    /\ subsplit_bone_indices = <<>>
    /\ split_submeshes = <<>>
    /\ error = ""

SpecSplit == InitSplit /\ [][NextSplit]_vars

(***************************************************************************)
(* split_mesh on a MergedMesh whose loops repeat vertex rows               *)
(***************************************************************************)
\* Two vertices that differ in the marking of their unused bone slots only (-1 against 0),
\* and a third one apart from them.
ReduceVertexData ==
    << KeyRow(<<0, 0, 0>>, <<1, 0, 0, 0>>, <<2, -1, -1, -1>>),
       KeyRow(<<0, 0, 0>>, <<1, 0, 0, 0>>, <<2, 0, 0, 0>>),
       KeyRow(<<1, 0, 0>>, <<1, 0, 0, 0>>, <<1, 0, 0, 0>>) >>

\* Four loops; the last two use the same vertex with the same normal.
ReduceLoopVertexIndices == <<0, 1, 2, 2>>

ReduceFaceRows ==
    { <<0, 1, 2, 0>>, <<2, 3, 0, 0>>, <<3, 2, 2, 0>>, <<0, 0, 0, 1>>, <<2, 1, 3, 1>> }

InitReduce ==
    /\ ExtraIdle
    /\ pc = "split_mesh"
    /\ MergeIdle
    /\ vertex_data = ReduceVertexData
    /\ loop_vertex_indices = ReduceLoopVertexIndices
    /\ loop_normals = [k \in DOMAIN ReduceLoopVertexIndices |-> NormalP]
    /\ loop_uvs = {"UVMap0"}
    /\ faces \in UNION { [1..n -> ReduceFaceRows] : n \in 1..MaxFaces }
    /\ split_submesh_defs \in UNION { [1..n -> SplitDefs] : n \in 1..MaxDefs }
    /\ use_submesh_bone_indices \in BOOLEAN
    /\ max_bones_per_submesh = 3
    /\ unused_bone_indices_are_minus_one \in BOOLEAN
    /\ merged_loops = <<>>
    /\ material_index = 0
    /\ split_submesh_info = <<>>
    /\ submesh_loops = <<>>
    /\ bone_indices = <<>>
    /\ face_index = 0
    /\ unique_indices = {}
    /\ subsplit_face_indices = <<>>
    /\ subsplit_bone_indices = <<>>
    /\ split_submeshes = <<>>
    /\ error = ""

SpecReduce == InitReduce /\ [][NextSplit]_vars

(***************************************************************************)
(* split_mesh with definitions of every UV-name shape                      *)
(***************************************************************************)
\* Definitions whose uv_layer_names is None, empty, of the layout's length or not, and
\* whose names are keys of loop_uvs or not; layouts of 0, 1 or 2 UVs.
UVDefs ==
    { [is_bind_pose |-> FALSE, uv_layer_names |-> ns, uv_count |-> n] :
        ns \in {NoNames, Names(<<>>), Names(<<"UVMap0">>), Names(<<"UVMap1">>),
                Names(<<"UVMap0", "UVMap1">>)},
        n \in 0..2 }

\* Face tables over the loops of SplitVertexData: none, material 0 only, materials 0 and 1,
\* material 1 only.
UVFaces ==
    { <<>>, << <<0, 0, 0, 0>> >>, << <<0, 1, 2, 0>>, <<3, 3, 3, 1>> >>, << <<3, 3, 3, 1>> >> }

InitSplitUV ==
    /\ ExtraIdle
    /\ pc = "split_mesh"
    /\ MergeIdle
    /\ vertex_data = SplitVertexData
    /\ loop_vertex_indices = [k \in DOMAIN SplitVertexData |-> k - 1]
    /\ loop_normals = [k \in DOMAIN SplitVertexData |-> NormalP]
    /\ loop_uvs \in {{"UVMap0"}, {"UVMap0", "UVMap1"}}
    /\ faces \in UVFaces
    /\ split_submesh_defs \in UNION { [1..n -> UVDefs] : n \in 1..MaxDefs }
    /\ use_submesh_bone_indices \in BOOLEAN
    /\ max_bones_per_submesh = 3
    /\ unused_bone_indices_are_minus_one = FALSE
    /\ merged_loops = <<>>
    /\ material_index = 0
    /\ split_submesh_info = <<>>
    /\ submesh_loops = <<>>
    /\ bone_indices = <<>>
    /\ face_index = 0
    /\ unique_indices = {}
    /\ subsplit_face_indices = <<>>
    /\ subsplit_bone_indices = <<>>
    /\ split_submeshes = <<>>
    /\ error = ""

SpecSplitUV == InitSplitUV /\ [][NextSplit]_vars

(***************************************************************************)
(* from_flver followed at once by split_mesh                               *)
(***************************************************************************)
\* Definitions that match the merged submeshes: one per submesh (its tag is its index), with
\* the submesh's own layout (one UV layer under its default name).
MatchingDefs ==
    [1..Len(submeshes) -> SplitDefs]

\* The call of split_mesh on the MergedMesh that from_flver returned.
StartSplit ==
    /\ pc = "merged"
    /\ pc' = "split_mesh"
    /\ split_submesh_defs' \in MatchingDefs
    /\ use_submesh_bone_indices' \in BOOLEAN
    /\ max_bones_per_submesh' = 3
    /\ unused_bone_indices_are_minus_one' \in BOOLEAN
    /\ UNCHANGED <<extraVars, mergeVars, loop_uvs, merged_loops, material_index, split_submesh_info,
                   subsplitVars, split_submeshes, error>>

NextRoundTrip ==
    \/ NextMerge
    \/ StartSplit
    \/ NextSplit

SpecRoundTrip == InitMerge /\ [][NextRoundTrip]_vars

(***************************************************************************)
(* from_flver on any submesh list                                          *)
(***************************************************************************)
\* Submeshes of two vertices, the first with a sound position or with a NaN in it.
FlverSubmeshes ==
    { [vertices |-> <<VRow(p, <<1, 0, 0, 0>>, <<0, 0, 0, 0>>, NormalP),
                      VRow(<<1, 2, 3>>, <<1, 0, 0, 0>>, <<0, 0, 0, 0>>, n1)>>,
       uv_count |-> 1, bone_indices |-> NoTable, triangles |-> ts] :
        p \in {<<1, 2, 3>>, <<1, NaN, 3>>}, n1 \in {NormalQ, NormalM}, ts \in MergeShapes }

InitFromFlver ==
    /\ FilterIdle
    /\ MeshIdle
    /\ pc = "from_flver"
    /\ flver_submeshes \in UNION { [1..n -> FlverSubmeshes] : n \in 0..MaxSubmeshes }
    /\ submesh_material_indices = <<>>
    /\ MergeIdle
    /\ loop_normals = <<>>
    /\ loop_vertex_indices = <<>>
    /\ vertex_data = <<>>
    /\ faces = <<>>
    /\ loop_uvs = {}
    /\ SplitIdle

SpecFromFlver == InitFromFlver /\ [][NextMerge]_vars

(***************************************************************************)
(* from_flver with the caller's material tags, on submeshes with and       *)
(* without triangles                                                       *)
(***************************************************************************)
\* Triangle lists over two vertices: none, one triangle, two triangles.
FaceShapes == { <<>>, << <<1, 0, 1>> >>, << <<0, 1, 1>>, <<1, 0, 0>> >> }

FaceSubmeshes ==
    { [vertices |-> <<RowWith(NormalP), RowWith(n1)>>, uv_count |-> 1, bone_indices |-> NoTable,
       triangles |-> ts] : n1 \in {NormalQ, NormalB}, ts \in FaceShapes }

\* The tags a caller gives: none, or one per submesh, not in list order and not distinct.
GivenTags(n) == {<<>>} \cup [1..n -> {0, 7}]

InitFaces ==
    /\ FilterIdle
    /\ MeshIdle
    /\ pc = "from_flver"
    /\ flver_submeshes \in SubmeshLists(FaceSubmeshes)
    /\ submesh_material_indices \in GivenTags(Len(flver_submeshes))
    /\ MergeIdle
    /\ loop_normals = <<>>
    /\ loop_vertex_indices = <<>>
    /\ vertex_data = <<>>
    /\ faces = <<>>
    /\ loop_uvs = {}
    /\ SplitIdle

SpecFaces == InitFaces /\ [][NextMerge]_vars

(***************************************************************************)
(* swap_vertex_yz, invert_vertex_uv and normalize_normals on the           *)
(* MergedMesh that from_flver returned.  Tangent, bitangent and UV          *)
(* components are in hundredths like the normals.                          *)
(***************************************************************************)
MaxCalls == 2

\* A vertex row with every kind of field: tangent, bitangent, color and UV next to the
\* position, bone data and normal.
FullRow(p, b, n) ==
    [position |-> p, bone_weights |-> <<1, 0, 0, 0>>, bone_indices |-> b, normal |-> n,
     tangent_0 |-> <<10, 20, 30, 100>>, bitangent |-> <<40, 50, 60, -100>>,
     color_0 |-> <<1, 2, 3, 4>>, uv_0 |-> <<25, 75>>]

\* Submeshes of two full rows, with or without a bone table (the second row's local index 1
\* is bone 3 under the table), and one submesh that has the plain fields only.
TransformSubmeshes ==
    { [vertices |-> <<FullRow(<<1, 2, 3>>, <<0, 0, 0, 0>>, n0), FullRow(<<4, 5, 6>>, <<1, 0, 0, 0>>, NormalQ)>>,
       uv_count |-> 1, bone_indices |-> bt, triangles |-> << <<0, 1, 1>> >>] :
        n0 \in {NormalP, NormalN}, bt \in {NoTable, Table(<<5, 3>>)} }
    \cup { [vertices |-> <<RowWith(NormalP), RowWith(NormalQ)>>, uv_count |-> 0,
            bone_indices |-> NoTable, triangles |-> << <<0, 1, 1>> >>] }

InitTransform ==
    /\ FilterIdle
    /\ MeshIdle
    /\ pc = "from_flver"
    /\ flver_submeshes \in SubmeshLists(TransformSubmeshes)
    /\ submesh_material_indices = <<>>
    /\ MergeIdle
    /\ loop_normals = <<>>
    /\ loop_vertex_indices = <<>>
    /\ vertex_data = <<>>
    /\ faces = <<>>
    /\ loop_uvs = {}
    /\ SplitIdle

\* The arrays of the MergedMesh.
Mesh ==
    [vertex_data |-> vertex_data, loop_vertex_indices |-> loop_vertex_indices,
     loop_normals |-> loop_normals, loop_tangents |-> loop_tangents,
     loop_bitangents |-> loop_bitangents, loop_vertex_colors |-> loop_vertex_colors,
     loop_uvs |-> loop_uv_arrays, faces |-> faces]

\* What a transform leaves alone besides the arrays it names.
mergeWork == <<submeshes, all_vertices, vertex_indices_normals, inv_vertex_indices,
               reduced_vertex_indices, vertex_count, assigned_loop_indices, loop_offset, cursor>>

\* Mutant: the three columns are rotated.
SwapYZ3_Rotated(v) == <<v[2], v[3], v[1]>>

\* `[:, [0, 2, 1]]` on one row.
SwapYZ3(v) == <<v[1], v[3], v[2]>>

\* `[:, [0, 2, 1, 3]]` on one row.
SwapYZ4(v) == <<v[1], v[3], v[2], v[4]>>

\* swap_vertex_yz: the positions are assigned into `vertex_data` in place; `loop_normals`,
\* each `loop_tangents[i]` and `loop_bitangents` are bound to new arrays.
SwapVertexYZ ==
    /\ pc = "merged"
    /\ Len(calls) < MaxCalls
    /\ \E tangents, bitangents \in BOOLEAN :
          /\ vertex_data' = [k \in DOMAIN vertex_data |->
                                [vertex_data[k] EXCEPT !.position = SwapYZ3(vertex_data[k].position)]]
          /\ loop_normals' = [k \in DOMAIN loop_normals |-> SwapYZ3(loop_normals[k])]
          /\ loop_tangents' =
                IF tangents
                THEN [i \in DOMAIN loop_tangents |->
                        [k \in DOMAIN loop_tangents[i] |-> SwapYZ4(loop_tangents[i][k])]]
                ELSE loop_tangents
          /\ loop_bitangents' =
                IF bitangents
                THEN [k \in DOMAIN loop_bitangents |-> SwapYZ4(loop_bitangents[k])]
                ELSE loop_bitangents
          /\ views' = ((views \ {"loop_normals"})
                          \ (IF tangents THEN {"loop_tangents"} ELSE {}))
                          \ (IF bitangents THEN {"loop_bitangents"} ELSE {})
          /\ calls' = Append(calls, [name |-> "swap_vertex_yz", flags |-> <<tangents, bitangents>>,
                                     before |-> Mesh])
    /\ UNCHANGED <<pc, mergeWork, loop_vertex_indices, faces, splitVars, filterVars, sourceVars,
                   loop_vertex_colors, loop_uv_arrays>>

\* The place of a submesh's first vertex in the stacked tables, from 1: the vertex counts of
\* the valid submeshes before it.
RECURSIVE StackOffset(_, _)
StackOffset(ss, i) ==
    IF i = 1 THEN 0
    ELSE StackOffset(ss, i - 1)
            + (IF HasNaNPosition(ss[i - 1]) THEN 0 ELSE Len(ss[i - 1].vertices))

\* The submeshes after an in-place write into a loop table that is a view of their field.
WrittenBack(ss, field, table) ==
    [i \in DOMAIN ss |->
        IF HasNaNPosition(ss[i]) \/ field \notin FieldNames(ss[i]) THEN ss[i]
        ELSE [ss[i] EXCEPT !.vertices =
                [k \in DOMAIN ss[i].vertices |->
                    [ss[i].vertices[k] EXCEPT ![field] = table[StackOffset(ss, i) + k]]]]]

\* `1.0 - loop_uv_array[:, 0]` and `1.0 - loop_uv_array[:, 1]` on one row.
InvertedUV(uv, invert_u, invert_v) ==
    <<IF invert_u THEN 100 - uv[1] ELSE uv[1], IF invert_v THEN 100 - uv[2] ELSE uv[2]>>

\* invert_vertex_uv: every array of `loop_uvs` is written in place.
InvertVertexUV ==
    /\ pc = "merged"
    /\ Len(calls) < MaxCalls
    /\ \E invert_u, invert_v \in BOOLEAN :
          /\ loop_uv_arrays' =
                [name \in DOMAIN loop_uv_arrays |->
                    [k \in DOMAIN loop_uv_arrays[name] |->
                        InvertedUV(loop_uv_arrays[name][k], invert_u, invert_v)]]
          /\ flver_submeshes' =
                IF "loop_uvs" \in views
                THEN LET uv0 == IF "UVMap0" \in DOMAIN loop_uv_arrays'
                                THEN WrittenBack(flver_submeshes, "uv_0", loop_uv_arrays'["UVMap0"])
                                ELSE flver_submeshes
                     IN  IF "UVMap1" \in DOMAIN loop_uv_arrays'
                         THEN WrittenBack(uv0, "uv_1", loop_uv_arrays'["UVMap1"])
                         ELSE uv0
                ELSE flver_submeshes
          /\ calls' = Append(calls, [name |-> "invert_vertex_uv", flags |-> <<invert_u, invert_v>>,
                                     before |-> Mesh])
    /\ UNCHANGED <<pc, mergeWork, vertex_data, loop_normals, loop_vertex_indices, faces, splitVars,
                   filterVars, submesh_material_indices, loop_tangents, loop_bitangents,
                   loop_vertex_colors, views>>

\* The integer square root.
ISqrt(x) == CHOOSE r \in 0..400 : r * r <= x /\ x < (r + 1) * (r + 1)

\* Division that rounds toward zero.
Quot(a, b) == IF a >= 0 THEN a \div b ELSE -((-a) \div b)

\* One row of `loop_normals / np.linalg.norm(loop_normals, axis=1, keepdims=True)`, rounded to
\* hundredths; a row of norm zero becomes a row of NaN.
Normalized(n) ==
    IF NaN \in Range(n) \/ Dot(n, n) = 0 THEN <<NaN, NaN, NaN>>
    ELSE [c \in 1..3 |-> Quot(100 * n[c], ISqrt(Dot(n, n)))]

\* normalize_normals: `self.loop_normals /= ...` writes in place.
NormalizeNormals ==
    /\ pc = "merged"
    /\ Len(calls) < MaxCalls
    /\ loop_normals' = [k \in DOMAIN loop_normals |-> Normalized(loop_normals[k])]
    /\ flver_submeshes' =
          IF "loop_normals" \in views THEN WrittenBack(flver_submeshes, "normal", loop_normals')
          ELSE flver_submeshes
    /\ calls' = Append(calls, [name |-> "normalize_normals", flags |-> <<>>, before |-> Mesh])
    /\ UNCHANGED <<pc, mergeWork, vertex_data, loop_vertex_indices, faces, splitVars, filterVars,
                   submesh_material_indices, loop_tangents, loop_bitangents, loop_vertex_colors,
                   loop_uv_arrays, views>>

NextTransform ==
    \/ NextMerge
    \/ SwapVertexYZ
    \/ InvertVertexUV
    \/ NormalizeNormals

SpecTransform == InitTransform /\ [][NextTransform]_vars

(***************************************************************************)
(* is_triangle_degenerate, called on one triangle after another            *)
(***************************************************************************)
MaxTriangles == 3

\* Triangles over four vertices: one in three vertex orders, another one, and three with
\* repeated vertex indices.
FilterTriangles ==
    { <<0, 1, 2>>, <<2, 0, 1>>, <<1, 0, 2>>, <<0, 1, 3>>, <<0, 0, 1>>, <<1, 0, 0>>, <<2, 2, 2>> }

\* Mutant: the set is keyed by the vertex indices in the order given.
SortedTriangle_AsGiven(triangle_vertex_indices) == triangle_vertex_indices

\* `tuple(sorted(triangle_vertex_indices))`
SortedTriangle(triangle_vertex_indices) ==
    LET t == triangle_vertex_indices
        lo == Min(Range(t))
        hi == Max(Range(t))
    IN  <<lo, t[1] + t[2] + t[3] - lo - hi, hi>>

\* is_triangle_degenerate: the returned value and the set as the call leaves it.
IsTriangleDegenerate(triangle_vertex_indices) ==
    IF discard_degenerate_faces /\ Cardinality(Range(triangle_vertex_indices)) < 3
    THEN [returned |-> TRUE, existing_face_set |-> existing_face_set]
    ELSE IF discard_duplicate_faces
    THEN IF SortedTriangle(triangle_vertex_indices) \in existing_face_set
         THEN [returned |-> TRUE, existing_face_set |-> existing_face_set]
         ELSE [returned |-> FALSE,
               existing_face_set |-> existing_face_set \cup {SortedTriangle(triangle_vertex_indices)}]
    ELSE [returned |-> FALSE, existing_face_set |-> existing_face_set]

\* A caller that filters a sequence of triangles with one set and one choice of options.
InitFilter ==
    /\ pc = "filter"
    /\ SourceIdle
    /\ MeshIdle
    /\ MergeIdle
    /\ vertex_data = <<>>
    /\ loop_vertex_indices = <<>>
    /\ loop_normals = <<>>
    /\ faces = <<>>
    /\ loop_uvs = {}
    /\ SplitIdle
    /\ discard_degenerate_faces \in BOOLEAN
    /\ discard_duplicate_faces \in BOOLEAN
    /\ existing_face_set = {}
    /\ checked = <<>>

CheckTriangle ==
    /\ pc = "filter"
    /\ Len(checked) < MaxTriangles
    /\ \E triangle \in FilterTriangles :
          /\ checked' = Append(checked, [triangle |-> triangle,
                                         returned |-> IsTriangleDegenerate(triangle).returned])
          /\ existing_face_set' = IsTriangleDegenerate(triangle).existing_face_set
    /\ UNCHANGED <<pc, mergeVars, splitVars, sourceVars, meshVars, discard_degenerate_faces,
                   discard_duplicate_faces>>

NextFilter == CheckTriangle

SpecFilter == InitFilter /\ [][NextFilter]_vars

(***************************************************************************)
(* Properties of the merge                                                 *)
(***************************************************************************)
KeyOf(l) == At(all_vertices, l)
NormalOf(l) == At(loop_normals, l)

\* Rows of the finished vertex table that carry a raw key.
RowsWithKey(key) == {k \in DOMAIN vertex_data : vertex_data[k] = key}

\* Vertices created so far for a raw key (each by the loop recorded for it).
CreatedForKey(key) == {k \in DOMAIN reduced_vertex_indices : KeyOf(reduced_vertex_indices[k]) = key}

\* The loop whose normal is the representative of a raw key: the creator of its primary vertex.
RepLoop(key) == At(reduced_vertex_indices, Lookup(vertex_indices_normals, key).index)

\* Assigned loops that met their raw key already in the primary table.
LaterLoops == {l \in assigned_loop_indices : RepLoop(KeyOf(l)) # l}

\* dot < -0.9 against the representative normal of the loop's key
InvertedLoop(l) == Dot(NormalOf(l), NormalOf(RepLoop(KeyOf(l)))) < -9000

\* C1: after from_flver, every raw key (position, bone_weights, bone_indices) of the input
\* loops is carried by at most two rows of the merged vertex_data.
C1_AtMostTwoRowsPerKey ==
    pc = "merged" => \A key \in Range(all_vertices) : Cardinality(RowsWithKey(key)) <= 2

\* Four loops of one raw key with at least three different normals were merged into two rows.
C1_Witness ==
    /\ pc = "merged"
    /\ \E key \in Range(all_vertices) :
          /\ Cardinality(RowsWithKey(key)) = 2
          /\ Cardinality({l \in assigned_loop_indices : KeyOf(l) = key}) >= 4
          /\ Cardinality({NormalOf(l) : l \in {m \in assigned_loop_indices : KeyOf(m) = key}}) >= 3

\* C2: after from_flver, loop_vertex_indices has one entry per loop of the merged submeshes
\* and every entry is a valid index into vertex_data (0..len(vertex_data)-1).
C2_LoopVertexIndicesValid ==
    pc = "merged" =>
        /\ Len(loop_vertex_indices) = SumLen(submeshes)
        /\ \A k \in DOMAIN loop_vertex_indices : loop_vertex_indices[k] \in 0..(Len(vertex_data) - 1)

\* C4: a loop that finds its raw key in the primary table is mapped to the primary vertex,
\* creating no vertex, when its dot product with the representative normal is >= -0.9
\* (-0.9 included), and to the inverted variant, a different vertex, when it is < -0.9; so a
\* key has two vertices exactly when some loop of it is inverted, and one otherwise.
C4_DotDecides ==
    /\ \A l \in LaterLoops :
          LET key == KeyOf(l)
              primary == Lookup(vertex_indices_normals, key)
          IN  IF Dot(NormalOf(l), primary.normal) >= -9000
              THEN /\ At(loop_vertex_indices, l) = primary.index
                   /\ l \notin Range(reduced_vertex_indices)
              ELSE /\ HasKey(inv_vertex_indices, key)
                   /\ At(loop_vertex_indices, l) = Lookup(inv_vertex_indices, key).index
                   /\ At(loop_vertex_indices, l) # primary.index
    /\ \A l \in assigned_loop_indices :
          Cardinality(CreatedForKey(KeyOf(l))) =
              IF \E m \in LaterLoops : KeyOf(m) = KeyOf(l) /\ InvertedLoop(m) THEN 2 ELSE 1

\* One key met with a normal at exactly -0.9 (merged into the primary vertex) and with the
\* exact opposite of the representative normal (second vertex).
C4_Witness ==
    /\ pc = "merged"
    /\ \E l \in LaterLoops, m \in LaterLoops :
          /\ KeyOf(l) = KeyOf(m)
          /\ Dot(NormalOf(l), NormalOf(RepLoop(KeyOf(l)))) = -9000
          /\ At(loop_vertex_indices, l) = Lookup(vertex_indices_normals, KeyOf(l)).index
          /\ NormalOf(m) = [k \in 1..3 |-> 0 - NormalOf(RepLoop(KeyOf(m)))[k]]
          /\ At(loop_vertex_indices, m) # At(loop_vertex_indices, l)
          /\ Cardinality(CreatedForKey(KeyOf(l))) = 2

\* C5: all loops of one raw key whose dot product with the primary representative is < -0.9
\* share one vertex, the inverted variant, whatever their normals are to each other; no third
\* vertex is created for the key.
C5_InvertedVariantShared ==
    /\ \A l \in LaterLoops, m \in LaterLoops :
          (KeyOf(l) = KeyOf(m) /\ InvertedLoop(l) /\ InvertedLoop(m))
              => At(loop_vertex_indices, l) = At(loop_vertex_indices, m)
    /\ \A l \in assigned_loop_indices : Cardinality(CreatedForKey(KeyOf(l))) <= 2

\* A loop reused the inverted vertex although its normal is near-inverted against the normal
\* of the loop that created that vertex too.
C5_Witness ==
    \E l \in LaterLoops :
        /\ InvertedLoop(l)
        /\ l \notin Range(reduced_vertex_indices)
        /\ Dot(NormalOf(l), NormalOf(At(reduced_vertex_indices, At(loop_vertex_indices, l)))) < -9000

(***************************************************************************)
(* Properties of split_mesh                                                *)
(***************************************************************************)
\* The call has returned or raised.
SplitEnded == pc \in {"split_done", "error"}

\* The material whose faces subsplit_faces is walking is a bind-pose material.
WalkingBindPose == pc = "subsplit" /\ At(split_submesh_defs, material_index).is_bind_pose

\* The number of distinct values (sentinel included) the running set would hold with the
\* face about to be walked added.
UnionSize == Cardinality(unique_indices \cup FaceBoneIndices(face_index))

C7_BoneTableWithinLimit ==
    (use_submesh_bone_indices /\ max_bones_per_submesh >= 3)
        => \A k \in DOMAIN split_submeshes :
              Len(split_submeshes[k].bone_indices.table) <= max_bones_per_submesh

\* C8: split_mesh does not return normally when `faces` holds a material tag that has no
\* entry in split_submesh_defs.
C8_UnknownTagAborts ==
    (\E k \in DOMAIN faces : faces[k][4] >= Len(split_submesh_defs)) => pc # "split_done"

\* A face of a material that has a definition names a loop past the loop tables.
LoopOutOfBounds ==
    \E k \in DOMAIN faces :
        /\ faces[k][4] < Len(split_submesh_defs)
        /\ \E c \in 1..3 : faces[k][c] >= Len(loop_vertex_indices)

\* C9: when a face of a material that has a definition references a loop index outside the
\* merged loop tables, split_mesh emits no submesh and does not return normally: it never
\* gets to the emission of submeshes, and every step before it has a successor (the face walk
\* stays within the material's faces), so the finite call ends by raising.
C9_LoopOutOfBoundsAborts ==
    (LoopOutOfBounds /\ pc # "merged")
        => /\ split_submeshes = <<>>
           /\ pc \in {"split_mesh", "validate", "combine", "gather", "subsplit", "error"}
           /\ pc = "subsplit" => face_index <= Len(submesh_loops) \div 3

\* The out-of-range loop was met after another material had been gathered.
C9_Witness ==
    /\ LoopOutOfBounds
    /\ pc = "error"
    /\ error = "IndexError: loop index"
    /\ split_submesh_info # <<>>
    /\ split_submeshes = <<>>

\* split_mesh has begun and is past its first statement.
PastEntry == pc \in {"validate", "combine", "gather", "subsplit", "emit", "split_done", "error"}

\* C10: with use_submesh_bone_indices and max_bones_per_submesh < 3 the call is rejected by
\* its first statement, before UV validation, loop gathering or emission; without
\* use_submesh_bone_indices no value of max_bones_per_submesh is rejected.
C10_BoneLimitRejectedFirst ==
    /\ (PastEntry /\ use_submesh_bone_indices /\ max_bones_per_submesh < 3)
          => /\ pc = "error"
             /\ error = "ValueError: max_bones_per_submesh"
             /\ merged_loops = <<>>
             /\ split_submesh_info = <<>>
             /\ split_submeshes = <<>>
    /\ (PastEntry /\ ~(use_submesh_bone_indices /\ max_bones_per_submesh < 3))
          => error # "ValueError: max_bones_per_submesh"

\* The limit was rejected although the UV names would have been rejected too.
C10_Witness ==
    /\ pc = "error"
    /\ error = "ValueError: max_bones_per_submesh"
    /\ UVValidationError(split_submesh_defs[1], loop_uvs) # ""

(***************************************************************************)
(* Properties of the round trip                                            *)
(***************************************************************************)
\* A corner of an original triangle: the vertex row with its bone indices resolved through
\* the submesh's bone table.
OriginalCorner(s, v) ==
    VRow(At(submeshes[s].vertices, v).position, At(submeshes[s].vertices, v).bone_weights,
         GlobalBoneIndices(submeshes[s], At(submeshes[s].vertices, v).bone_indices),
         At(submeshes[s].vertices, v).normal)

OriginalTriangles(s) ==
    { [c \in 1..3 |-> OriginalCorner(s, t[c])] : t \in Range(submeshes[s].triangles) }

\* A corner of an emitted triangle, resolved the same way through the emitted bone table.
OutputCorner(out, v) ==
    VRow(At(out.vertices, v).position, At(out.vertices, v).bone_weights,
         IF out.bone_indices.present
         THEN [j \in 1..BoneSlots |-> At(out.bone_indices.table, At(out.vertices, v).bone_indices[j])]
         ELSE At(out.vertices, v).bone_indices,
         At(out.vertices, v).normal)

\* The triangles of every emitted submesh of a material.
OutputTriangles(m) ==
    UNION { { [c \in 1..3 |-> OutputCorner(split_submeshes[o], split_submeshes[o].face_vertex_indices[3 * f + c])] :
                f \in 0..((Len(split_submeshes[o].face_vertex_indices) \div 3) - 1) } :
            o \in {o \in DOMAIN split_submeshes : split_submeshes[o].material_index = m} }

OutputKeys(m) ==
    UNION { { RawKey([bone_indices |-> NoTable], OutputCorner(split_submeshes[o], v - 1)) :
                v \in DOMAIN split_submeshes[o].vertices } :
            o \in {o \in DOMAIN split_submeshes : split_submeshes[o].material_index = m} }

RoundTripEnded == SplitEnded /\ submeshes # <<>>

\* C3 as stated: from_flver followed by split_mesh with matching definitions returns, for each
\* original submesh, the same set of triangles (compared corner by corner on the vertex rows,
\* bone indices resolved through the bone tables), and every original vertex's position and
\* bone data is in an output row of its material.
C3_RoundTrip ==
    RoundTripEnded =>
        /\ pc = "split_done"
        /\ \A s \in DOMAIN submeshes :
              /\ OutputTriangles(MaterialTag(s)) = OriginalTriangles(s)
              /\ \A v \in DOMAIN submeshes[s].vertices :
                    RawKey(submeshes[s], submeshes[s].vertices[v]) \in OutputKeys(MaterialTag(s))

\* The round trip on meshes whose every vertex is on a triangle, for comparison: the call
\* returns and the triangles are those of the originals.
RoundTripOfReferencedMeshes ==
    (RoundTripEnded /\ \A l \in DOMAIN loop_vertex_indices : (l - 1) \in assigned_loop_indices) =>
        /\ pc = "split_done"
        /\ \A s \in DOMAIN submeshes :
              /\ OutputTriangles(MaterialTag(s)) = OriginalTriangles(s)
              /\ \A v \in DOMAIN submeshes[s].vertices :
                    RawKey(submeshes[s], submeshes[s].vertices[v]) \in OutputKeys(MaterialTag(s))

(***************************************************************************)
(* Properties of the definition validation                                 *)
(***************************************************************************)
UVErrors == {"TypeError: len(None)", "ValueError: uv count", "ValueError: uv layer name"}

\* A definition whose name list has not the length of its layout's UV count, or names a layer
\* that is no key of loop_uvs.
BadUVDef(def) ==
    /\ def.uv_layer_names.given
    /\ \/ Len(def.uv_layer_names.names) # def.uv_count
       \/ \E k \in DOMAIN def.uv_layer_names.names : def.uv_layer_names.names[k] \notin loop_uvs

NoNamesGiven(def) == ~def.uv_layer_names.given \/ def.uv_layer_names.names = <<>>

\* C12 as stated: when every definition gives no uv_layer_names (None or empty) and the default
\* names 'UVMap0'..'UVMap{n-1}' of its layout are keys of loop_uvs, the validation succeeds:
\* the call is not ended by a validation error.
C12_DefaultNamesAccepted ==
    (\A i \in DOMAIN split_submesh_defs :
        /\ NoNamesGiven(split_submesh_defs[i])
        /\ \A k \in 0..(split_submesh_defs[i].uv_count - 1) : DefaultUVName(k) \in loop_uvs)
        => error \notin UVErrors

(***************************************************************************)
(* Properties of the material loop                                         *)
(***************************************************************************)
\* The material tags that have a definition and at least one face.
MaterialsWithFaces ==
    {m \in 0..(Len(split_submesh_defs) - 1) : SubmeshFaces(m) # <<>>}

\* C13: the pass of the material loop for a definition that is the tag of no face raises
\* nothing and gathers nothing, it only moves on to the next definition; and a call that
\* returns has emitted submeshes for exactly the materials that have faces, none for the
\* others.
C13_EmptyMaterialSkipped ==
    [][ /\ (pc = "gather" /\ SubmeshFaces(material_index) = <<>>)
            => /\ pc' # "error"
               /\ error' = error
               /\ split_submesh_info' = split_submesh_info
               /\ material_index' = material_index + 1
        /\ pc' = "split_done"
            => {split_submeshes'[o].material_index : o \in DOMAIN split_submeshes'} = MaterialsWithFaces
      ]_vars

\* The call returned submeshes for material 1 after skipping material 0, which has no faces.
C13_Witness ==
    /\ pc = "split_done"
    /\ Len(split_submesh_defs) = 2
    /\ SubmeshFaces(0) = <<>>
    /\ \E o \in DOMAIN split_submeshes : split_submeshes[o].material_index = 1

(***************************************************************************)
(* Properties of is_triangle_degenerate                                    *)
(***************************************************************************)
\* Two triangles use the same three vertex indices, in any order.
SameVertexIndices(a, b) ==
    \E q \in {q \in [1..3 -> 1..3] : Range(q) = 1..3} : \A i \in 1..3 : a[i] = b[q[i]]

\* C14: over a sequence of calls that share one set, a triangle is reported dropped exactly
\* when degenerate filtering is on and two or more of its vertex indices are identical, or
\* duplicate filtering is on and an earlier accepted triangle has the same three vertex
\* indices in any order; so the first occurrence of a triangle that is not dropped as
\* degenerate is accepted and its later occurrences are dropped.
C14_FilterVerdicts ==
    pc = "filter" =>
        \A k \in DOMAIN checked :
            checked[k].returned =
                \/ discard_degenerate_faces /\ Cardinality(Range(checked[k].triangle)) < 3
                \/ /\ discard_duplicate_faces
                   /\ \E j \in 1..(k - 1) :
                         /\ ~checked[j].returned
                         /\ SameVertexIndices(checked[j].triangle, checked[k].triangle)

\* With both filters on: a triangle accepted, the same triangle in another vertex order
\* dropped, a triangle with a repeated vertex index dropped.
C14_Witness ==
    /\ pc = "filter"
    /\ discard_degenerate_faces
    /\ discard_duplicate_faces
    /\ Len(checked) = 3
    /\ checked[1] = [triangle |-> <<0, 1, 2>>, returned |-> FALSE]
    /\ checked[2] = [triangle |-> <<2, 0, 1>>, returned |-> TRUE]
    /\ checked[3] = [triangle |-> <<0, 0, 1>>, returned |-> TRUE]

(***************************************************************************)
(* Properties of from_flver's input checks                                 *)
(***************************************************************************)
\* The faces of the merged mesh that carry a tag.
FacesTagged(m) == SelectSeq(faces, LAMBDA f : f[4] = m)

\* C16 as stated: for any non-empty submesh list from_flver completes; the merged mesh holds
\* the loops of the submeshes without NaN positions only, no face carries the tag of a
\* submesh with NaN positions, and every other submesh's faces carry the tag of its place in
\* the submesh list.
C16_NaNSubmeshDropped ==
    flver_submeshes # <<>> =>
        /\ pc # "error"
        /\ pc = "merged" =>
              /\ Len(loop_normals) = SumLen(SelectSeq(flver_submeshes, LAMBDA sm : ~HasNaNPosition(sm)))
              /\ \A i \in DOMAIN flver_submeshes :
                    Len(FacesTagged(i - 1)) = IF HasNaNPosition(flver_submeshes[i]) THEN 0
                                              ELSE Len(flver_submeshes[i].triangles)

\* C19: from_flver on an empty submesh list ends with the ValueError of its first statement;
\* no stacked table, loop table, vertex table or face list has been built.
C19_EmptyListRejected ==
    (flver_submeshes = <<>> /\ pc # "from_flver")
        => /\ pc = "error"
           /\ error = "ValueError: FLVER has no submeshes"
           /\ all_vertices = <<>>
           /\ loop_normals = <<>>
           /\ loop_vertex_indices = <<>>
           /\ vertex_data = <<>>
           /\ faces = <<>>

\* The call on the empty list has been made and was rejected.
C19_Witness ==
    /\ flver_submeshes = <<>>
    /\ pc = "error"
    /\ error = "ValueError: FLVER has no submeshes"

(***************************************************************************)
(* Properties of make_bone_indices_local                                   *)
(***************************************************************************)
\* C20: when subsplit_faces closes a material, every subsplit it returns has as many loop rows
\* as its faces have corners, its bone table is ascending, and every bone index of its loops
\* that is in the table has been replaced by its position in the table: the local index i
\* satisfies 0 <= i < len(table) and table[i] is the global index.
C20_LocalIndexIsPosition ==
    [][ (pc = "subsplit" /\ face_index = Len(submesh_loops) \div 3 /\ pc' # "error")
            => LET returned == SubSeq(split_submesh_info', Len(split_submesh_info) + 1,
                                      Len(split_submesh_info'))
                   starts == subsplit_face_indices'
               IN  /\ Len(returned) = Len(starts) - 1
                   /\ \A i \in DOMAIN returned :
                         LET table == returned[i].bone_indices.table
                         IN  /\ Len(returned[i].loops) = 3 * (starts[i + 1] - starts[i])
                             /\ \A a, b \in DOMAIN table : a < b => table[a] < table[b]
                             /\ \A k \in DOMAIN returned[i].loops : \A j \in 1..BoneSlots :
                                   LET global == bone_indices[3 * starts[i] + k][j]
                                       local == returned[i].loops[k].bone_indices[j]
                                   IN  global \in Range(table)
                                         => /\ 0 <= local
                                            /\ local < Len(table)
                                            /\ At(table, local) = global
      ]_vars

\* A subsplit was returned whose table is [2, 3]: bone 3 became local index 1, bone 2 local
\* index 0, next to unused slots marked -1.
C20_Witness ==
    \E o \in DOMAIN split_submesh_info :
        /\ split_submesh_info[o].bone_indices = Table(<<2, 3>>)
        /\ \E k \in DOMAIN split_submesh_info[o].loops :
              split_submesh_info[o].loops[k].bone_indices[1] = 1
        /\ \E k \in DOMAIN bone_indices : -1 \in Range(bone_indices[k])

----------------------------------------------------------------------------
\* split_mesh and the arrays of the MergedMesh it is called on

\* C18: no step of split_mesh, in a call that ends normally or in an exception, with or
\* without bone subsplitting and with either reading of unused bone indices, changes
\* vertex_data, loop_vertex_indices, the loop attribute tables or faces; and when
\* subsplit_faces closes a material, every subsplit it returns holds the loop rows of its own
\* faces, with the local indices computed from the global indices those rows had before the
\* first subsplit was written.
C18_MergedMeshImmutable ==
    [][ /\ UNCHANGED <<vertex_data, loop_vertex_indices, loop_normals, loop_tangents, loop_bitangents,
                       loop_vertex_colors, loop_uvs, loop_uv_arrays, faces>>
        /\ (pc = "subsplit" /\ face_index = Len(submesh_loops) \div 3 /\ pc' # "error")
              => LET returned == SubSeq(split_submesh_info', Len(split_submesh_info) + 1,
                                        Len(split_submesh_info'))
                     starts == subsplit_face_indices'
                 IN  \A i \in DOMAIN returned :
                        LET first == 3 * starts[i] + 1
                            last == 3 * starts[i + 1]
                            own == SubSeq(submesh_loops, first, last)
                            local == MakeBoneIndicesLocal(SubSeq(bone_indices, first, last),
                                                          returned[i].bone_indices.table)
                        IN  /\ Len(returned[i].loops) = Len(own)
                            /\ \A k \in DOMAIN own :
                                  returned[i].loops[k] = [own[k] EXCEPT !.bone_indices = local[k]]
      ]_vars

\* A material was cut into two subsplits while `bone_indices` was a view of the loop rows, in
\* a call with unused indices already marked, and both subsplits were returned.
C18_Witness ==
    /\ pc # "error"
    /\ unused_bone_indices_are_minus_one
    /\ Len(subsplit_face_indices) >= 3
    /\ \E a, b \in DOMAIN split_submesh_info :
          /\ a < b
          /\ split_submesh_info[a].material_index = split_submesh_info[b].material_index
          /\ split_submesh_info[a].bone_indices.present
          /\ BoneIndicesIsView(At(split_submesh_defs, split_submesh_info[a].material_index).is_bind_pose)

----------------------------------------------------------------------------
\* The transforms of a MergedMesh

\* The arrays as the n-th call left them.
MeshAfterCall(n) == IF n = Len(calls) THEN Mesh ELSE calls[n + 1].before

PositionsOf(mesh) == [k \in DOMAIN mesh.vertex_data |-> mesh.vertex_data[k].position]

\* Bone weights and bone indices of every vertex.
BoneDataOf(mesh) ==
    [k \in DOMAIN mesh.vertex_data |->
        <<mesh.vertex_data[k].bone_weights, mesh.vertex_data[k].bone_indices>>]

\* C15: a call of swap_vertex_yz that directly follows another one leaves the vertex
\* positions and the loop normals as they were before the first of the two, and so every
\* loop tangent array when both calls were given the same `tangents`, and the loop
\* bitangents when both were given the same `bitangents`; and no call of swap_vertex_yz
\* changes bone weights, bone indices, loop_vertex_indices, a UV array, a color array or faces.
C15_SwapTwiceRestores ==
    \A n \in DOMAIN calls :
        calls[n].name = "swap_vertex_yz"
            => LET before == calls[n].before
                   after == MeshAfterCall(n)
               IN  /\ BoneDataOf(after) = BoneDataOf(before)
                   /\ after.loop_vertex_indices = before.loop_vertex_indices
                   /\ after.loop_uvs = before.loop_uvs
                   /\ after.loop_vertex_colors = before.loop_vertex_colors
                   /\ after.faces = before.faces
                   /\ (n > 1 /\ calls[n - 1].name = "swap_vertex_yz")
                         => LET original == calls[n - 1].before
                            IN  /\ PositionsOf(after) = PositionsOf(original)
                                /\ after.loop_normals = original.loop_normals
                                /\ calls[n].flags[1] = calls[n - 1].flags[1]
                                      => after.loop_tangents = original.loop_tangents
                                /\ calls[n].flags[2] = calls[n - 1].flags[2]
                                      => after.loop_bitangents = original.loop_bitangents

\* swap_vertex_yz was called twice with tangents and bitangents on a mesh that has a tangent
\* array, UVs and colors, and the first call moved positions, normals, tangents and bitangents.
C15_Witness ==
    /\ Len(calls) = 2
    /\ \A n \in 1..2 : calls[n].name = "swap_vertex_yz" /\ calls[n].flags = <<TRUE, TRUE>>
    /\ loop_tangents # <<>>
    /\ loop_vertex_colors # <<>>
    /\ DOMAIN loop_uv_arrays # {}
    /\ PositionsOf(calls[2].before) # PositionsOf(calls[1].before)
    /\ calls[2].before.loop_normals # calls[1].before.loop_normals
    /\ calls[2].before.loop_tangents # calls[1].before.loop_tangents
    /\ calls[2].before.loop_bitangents # calls[1].before.loop_bitangents

\* C17: no step of from_flver and no later call of swap_vertex_yz, invert_vertex_uv or
\* normalize_normals changes a submesh of the FLVER (its bone_indices table, its vertex rows
\* with their bone_indices, its triangles); and the stacked vertex table that from_flver
\* builds holds, for every vertex of a valid submesh, the global index table[local] where the
\* submesh has a table and the row's own bone indices where it has none.
C17_SourceSubmeshesUntouched ==
    [][ /\ flver_submeshes' = flver_submeshes
        /\ (pc = "from_flver" /\ pc' # "error")
              => \A i \in DOMAIN flver_submeshes :
                    LET submesh == flver_submeshes[i]
                    IN  ~HasNaNPosition(submesh)
                          => \A k \in DOMAIN submesh.vertices :
                                LET local == submesh.vertices[k].bone_indices
                                    stacked == all_vertices'[StackOffset(flver_submeshes, i) + k]
                                IN  stacked.bone_indices =
                                        IF submesh.bone_indices.present
                                        THEN [j \in 1..4 |-> submesh.bone_indices.table[local[j] + 1]]
                                        ELSE local
      ]_vars

\* A submesh with the table [5, 3] was merged: bone 3 is in the merged vertices while the
\* submesh's row still holds the local index 1; then normalize_normals and invert_vertex_uv
\* were called and changed the merged normals and UVs.
C17_Witness ==
    /\ pc = "merged"
    /\ \E i \in DOMAIN flver_submeshes :
          /\ flver_submeshes[i].bone_indices = Table(<<5, 3>>)
          /\ flver_submeshes[i].vertices[2].bone_indices = <<1, 0, 0, 0>>
    /\ \E k \in DOMAIN vertex_data : vertex_data[k].bone_indices = <<3, 5, 5, 5>>
    /\ Len(calls) = 2
    /\ calls[1].name = "normalize_normals"
    /\ calls[2].name = "invert_vertex_uv"
    /\ calls[2].before.loop_normals # calls[1].before.loop_normals
    /\ loop_uv_arrays # calls[2].before.loop_uvs

----------------------------------------------------------------------------
\* The final vertex reduction of split_mesh

\* The first gathered loop (from 1) that an emitted submesh's faces map to vertex v (from 0).
FirstUse(submesh, v) ==
    Min({k \in DOMAIN submesh.face_vertex_indices : submesh.face_vertex_indices[k] = v})

\* No emitted submesh holds the same vertex row twice.
EmittedRowsDistinct ==
    \A o \in DOMAIN split_submeshes :
        \A a, b \in DOMAIN split_submeshes[o].vertices :
            a # b => split_submeshes[o].vertices[a] # split_submeshes[o].vertices[b]

\* C21: in every emitted submesh the vertex rows are pairwise distinct, every vertex is used
\* by a loop and the vertices stand in the order of their first use, and the vertex row at
\* face_vertex_indices[k] equals the gathered loop row k.
C21_FinalReduction ==
    /\ EmittedRowsDistinct
    /\ \A o \in DOMAIN split_submeshes :
          LET submesh == split_submeshes[o]
              loops == split_submesh_info[o].loops
          IN  /\ \A v \in 0..(Len(submesh.vertices) - 1) :
                    \E k \in DOMAIN loops : submesh.face_vertex_indices[k] = v
              /\ \A a, b \in 0..(Len(submesh.vertices) - 1) :
                    a < b => FirstUse(submesh, a) < FirstUse(submesh, b)
              /\ \A k \in DOMAIN loops :
                    At(submesh.vertices, submesh.face_vertex_indices[k]) = loops[k]

----------------------------------------------------------------------------
\* The walk of subsplit_faces over a material's faces

\* The bone references of the three loops of the face about to be walked.
WalkedFaceBones ==
    { bone_indices[3 * face_index + c][j] : c \in 1..3, j \in 1..BoneSlots }

Ascending(seq) == \A a, b \in DOMAIN seq : a < b => seq[a] < seq[b]

\* C22: while subsplit_faces walks a material the running set holds the sentinel -1; a face
\* whose union with the running set has more than max_bones_per_submesh + 1 values puts a
\* boundary at that face, records the running set without the sentinel as an ascending
\* table, and makes the running set that face's bones plus the sentinel; any other face
\* makes the running set the union and records nothing; and the end of the material appends
\* the face count as last boundary and the running set as last table.
C22_GreedySubsplit ==
    [][ pc = "subsplit"
          => /\ -1 \in unique_indices
             /\ IF face_index < Len(submesh_loops) \div 3
                THEN LET union == unique_indices \cup WalkedFaceBones
                     IN  IF Cardinality(union) > max_bones_per_submesh + 1
                         THEN /\ subsplit_face_indices' = Append(subsplit_face_indices, face_index)
                              /\ Len(subsplit_bone_indices') = Len(subsplit_bone_indices) + 1
                              /\ SubSeq(subsplit_bone_indices', 1, Len(subsplit_bone_indices))
                                    = subsplit_bone_indices
                              /\ LET table == subsplit_bone_indices'[Len(subsplit_bone_indices')]
                                 IN  Ascending(table) /\ Range(table) = unique_indices \ {-1}
                              /\ unique_indices' = WalkedFaceBones \cup {-1}
                         ELSE /\ unique_indices' = union
                              /\ UNCHANGED <<subsplit_face_indices, subsplit_bone_indices>>
                ELSE /\ subsplit_face_indices'
                           = Append(subsplit_face_indices, Len(submesh_loops) \div 3)
                     /\ Len(subsplit_bone_indices') = Len(subsplit_face_indices)
                     /\ LET table == subsplit_bone_indices'[Len(subsplit_bone_indices')]
                        IN  Ascending(table) /\ Range(table) = unique_indices \ {-1}
      ]_vars

\* A material of two faces was walked with the limit 3: the first face brought the running
\* set to bones 0, 1, 2 and the sentinel, the face on bone 3 was put behind a boundary, and
\* the material was closed after it with a second table that holds bone 3.
C22_Witness ==
    /\ pc \in {"gather", "emit"}
    /\ max_bones_per_submesh = 3
    /\ subsplit_face_indices = <<0, 1, 2>>
    /\ Len(subsplit_bone_indices) = 2
    /\ subsplit_bone_indices[1] = <<0, 1, 2>>
    /\ 3 \in Range(subsplit_bone_indices[2])

----------------------------------------------------------------------------
\* The primary table of merge_vertices

\* C23: an entry of the primary table, once written, is the same in every later state; the
\* table grows by one entry at a time, written by a loop whose raw key is not in it yet, with
\* the next vertex index and that loop's normal; and a loop that finds its key in the table
\* gets the primary vertex exactly when its normal is not near-inverted against the normal of
\* the loop that created that vertex, whatever was merged or created since.
C23_RepresentativeWrittenOnce ==
    [][ /\ Len(vertex_indices_normals') \in {Len(vertex_indices_normals), Len(vertex_indices_normals) + 1}
        /\ \A k \in DOMAIN vertex_indices_normals :
              vertex_indices_normals'[k] = vertex_indices_normals[k]
        /\ Len(vertex_indices_normals') = Len(vertex_indices_normals) + 1
              => LET entry == vertex_indices_normals'[Len(vertex_indices_normals')]
                 IN  /\ \A k \in DOMAIN vertex_indices_normals :
                           vertex_indices_normals[k].key # entry.key
                     /\ entry.key = KeyOf(CurLoop)
                     /\ entry.normal = NormalOf(CurLoop)
                     /\ entry.index = vertex_count
        /\ (pc = "merge" /\ CurLoop \notin assigned_loop_indices)
              => \A k \in DOMAIN vertex_indices_normals :
                    vertex_indices_normals[k].key = KeyOf(CurLoop)
                       => LET first == At(reduced_vertex_indices, vertex_indices_normals[k].index)
                          IN  (loop_vertex_indices'[CurLoop + 1] = vertex_indices_normals[k].index)
                                 <=> (Dot(NormalOf(CurLoop), NormalOf(first)) >= InvertedThreshold)
      ]_vars

\* One raw key, first met with the normal (-1, 2, 0): a later loop created the inverted
\* variant, and after that a loop with another normal was merged into the primary vertex.
C23_Witness ==
    /\ pc = "merged"
    /\ Len(vertex_indices_normals) = 1
    /\ vertex_indices_normals[1].normal = NormalN
    /\ Len(inv_vertex_indices) = 1
    /\ \E l1, l2 \in DOMAIN loop_vertex_indices :
          /\ l1 < l2
          /\ loop_vertex_indices[l1] = inv_vertex_indices[1].index
          /\ loop_vertex_indices[l2] = vertex_indices_normals[1].index
          /\ loop_normals[l2] # NormalN

----------------------------------------------------------------------------
\* The loop-to-vertex assignment of merge_vertices

\* C24: while merge_vertices runs, the loops in assigned_loop_indices are the loops whose
\* entry of loop_vertex_indices has been written; a written entry keeps its value in every
\* later step, the construction of the MergedMesh included; and the step for a loop index
\* that is already assigned changes neither vertex table, creates no vertex and writes no
\* entry.
C24_LoopAssignedOnce ==
    [][ /\ pc = "merge"
           => \A l \in DOMAIN loop_vertex_indices :
                 (l - 1 \in assigned_loop_indices) <=> (loop_vertex_indices[l] # Uninit)
        /\ \A l \in DOMAIN loop_vertex_indices :
              loop_vertex_indices[l] # Uninit => loop_vertex_indices'[l] = loop_vertex_indices[l]
        /\ (pc = "merge" /\ CurLoop \in assigned_loop_indices)
              => UNCHANGED <<vertex_indices_normals, inv_vertex_indices, reduced_vertex_indices,
                             vertex_count, loop_vertex_indices, assigned_loop_indices>>
      ]_vars

\* A merge of one submesh whose two triangles name loops 0 and 1 three times each: two
\* loops were assigned, four references were skipped.
C24_Witness ==
    /\ pc = "merged"
    /\ Len(submeshes) = 1
    /\ Len(faces) = 2
    /\ assigned_loop_indices = {0, 1}
    /\ Len(vertex_data) <= 2

----------------------------------------------------------------------------
\* The faces of the MergedMesh

\* The triangles of the merged submeshes, one block per submesh in list order, every loop
\* index raised by the vertex count of the merged submeshes before it, with the tag given.
ConcatenatedTriangles(tags) ==
    LET valid == ValidSubmeshIndices(flver_submeshes)
    IN  Flatten([k \in DOMAIN valid |->
            LET submesh == flver_submeshes[valid[k]]
                before == StackOffset(flver_submeshes, valid[k])
            IN  [t \in DOMAIN submesh.triangles |->
                    <<submesh.triangles[t][1] + before, submesh.triangles[t][2] + before,
                      submesh.triangles[t][3] + before, tags[k]>>]])

----------------------------------------------------------------------------
\* UV layers of the MergedMesh that no definition uses

\* Every definition passes get_validated_uv_layer_names against the mesh's UV layers.
EveryDefinitionValidates ==
    \A i \in DOMAIN split_submesh_defs : UVValidationError(split_submesh_defs[i], loop_uvs) = ""

\* C26 as stated: when every definition passes validation, split_mesh does not end in an
\* error, whether or not loop_uvs holds UV layers that no definition names.
C26_UnusedLayersDiscarded ==
    EveryDefinitionValidates => pc # "error"

----------------------------------------------------------------------------
\* The vertex that from_flver gives to a loop

\* The loop indices of the faces, in the order merge_vertices met them.
WalkedLoops == Flatten([f \in DOMAIN faces |-> <<faces[f][1], faces[f][2], faces[f][3]>>])

\* The place in the walk where a vertex index is first the vertex of a loop (0: nowhere).
FirstWalk(v) ==
    LET at == {i \in DOMAIN WalkedLoops : At(loop_vertex_indices, WalkedLoops[i]) = v}
    IN  IF at = {} THEN 0 ELSE Min(at)

\* The row of the merged submeshes that loop l stacks: position and weights as they are,
\* bone indices looked up in the submesh's bone table when it has one.
ConsolidatedRow(l) ==
    LET s == CHOOSE s \in DOMAIN submeshes :
                 l - SumLen(SubSeq(submeshes, 1, s - 1)) \in 0..(Len(submeshes[s].vertices) - 1)
        row == At(submeshes[s].vertices, l - SumLen(SubSeq(submeshes, 1, s - 1)))
    IN  [position |-> row.position, bone_weights |-> row.bone_weights,
         bone_indices |-> IF submeshes[s].bone_indices.present
                          THEN [j \in 1..4 |-> submeshes[s].bone_indices.table[row.bone_indices[j] + 1]]
                          ELSE row.bone_indices]

\* C27: in the MergedMesh that from_flver returns, the vertex of every loop that a face
\* references is a row of vertex_data with the position, the bone weights and the global bone
\* indices of that loop's row; every vertex index from 0 to the row count is the vertex of
\* some referenced loop, and the vertices are numbered in the order in which the walk over
\* the faces first used them.
C27_LoopVertexIdentity ==
    pc = "merged" =>
        /\ \A i \in DOMAIN WalkedLoops :
              /\ At(loop_vertex_indices, WalkedLoops[i]) \in 0..(Len(vertex_data) - 1)
              /\ At(vertex_data, At(loop_vertex_indices, WalkedLoops[i])) = ConsolidatedRow(WalkedLoops[i])
        /\ \A v \in 0..(Len(vertex_data) - 1) : FirstWalk(v) > 0
        /\ \A v, w \in 0..(Len(vertex_data) - 1) : v < w => FirstWalk(v) < FirstWalk(w)

\* Two submeshes with the bone table (5, 3) were merged into two vertices, a primary one
\* and an inverted one: both rows carry bone 5 in all four slots, and the first loop of the
\* second submesh took the inverted vertex, made for the second loop of the first.
C27_Witness ==
    /\ pc = "merged"
    /\ Len(submeshes) = 2
    /\ \A s \in DOMAIN submeshes : submeshes[s].bone_indices.present
    /\ Len(vertex_data) = 2
    /\ \A k \in DOMAIN vertex_data : vertex_data[k].bone_indices = <<5, 5, 5, 5>>
    /\ Len(faces) = 4
    /\ At(loop_vertex_indices, 1) = 1
    /\ At(loop_vertex_indices, 2) = 1

----------------------------------------------------------------------------
\* The face ranges of the subsplits of a material

\* C28 as stated: when subsplit_faces has walked the faces of a material, the boundaries it
\* cuts the faces at start at face 0, end at the face count and rise strictly, so that the
\* ranges between them are contiguous, in face order, disjoint, cover every face once and
\* hold at least one face each.
C28_SubsplitsPartition ==
    [][ (pc = "subsplit" /\ face_index = Len(submesh_loops) \div 3)
           => /\ subsplit_face_indices'[1] = 0
              /\ subsplit_face_indices'[Len(subsplit_face_indices')] = Len(submesh_loops) \div 3
              /\ \A i \in 1..(Len(subsplit_face_indices') - 1) :
                    subsplit_face_indices'[i] < subsplit_face_indices'[i + 1]
      ]_vars

----------------------------------------------------------------------------
\* A bind-pose material without any bone in use

\* A vertex none of whose bone slots is in use, as subsplit_faces reads it: all weights zero,
\* or all indices -1 when the caller marks unused slots itself.
NoSlotInUse(vertex) ==
    IF unused_bone_indices_are_minus_one
    THEN \A j \in 1..BoneSlots : vertex.bone_indices[j] = -1
    ELSE \A j \in 1..BoneSlots : vertex.bone_weights[j] = 0

\* The call splits by bone limit, every definition validates, and the faces are faces of
\* bind-pose materials over existing loops whose vertices have no bone slot in use.
OnlyUnusedBindPoseFaces ==
    /\ use_submesh_bone_indices
    /\ max_bones_per_submesh >= 3
    /\ EveryDefinitionValidates
    /\ faces # <<>>
    /\ \A f \in DOMAIN faces :
          /\ faces[f][4] \in 0..(Len(split_submesh_defs) - 1)
          /\ At(split_submesh_defs, faces[f][4]).is_bind_pose
          /\ \A c \in 1..3 :
                /\ faces[f][c] \in 0..(Len(loop_vertex_indices) - 1)
                /\ NoSlotInUse(At(vertex_data, At(loop_vertex_indices, faces[f][c])))

\* C29 as stated: on such a call split_mesh does not end in an error, and the submeshes it
\* returns have an empty bone table and bone index 0 in every slot of every vertex.
C29_UnusedBindPoseCompletes ==
    OnlyUnusedBindPoseFaces =>
        /\ pc # "error"
        /\ pc = "split_done" =>
              \A i \in DOMAIN split_submeshes :
                  /\ split_submeshes[i].bone_indices = Table(<<>>)
                  /\ \A k \in DOMAIN split_submeshes[i].vertices :
                        split_submeshes[i].vertices[k].bone_indices = <<0, 0, 0, 0>>

----------------------------------------------------------------------------
\* Vertices shared by loops of different submeshes

\* The merged submesh (by its place in the list) whose rows hold loop l.
SubmeshOfLoop(l) ==
    CHOOSE s \in DOMAIN submeshes :
        l - SumLen(SubSeq(submeshes, 1, s - 1)) \in 0..(Len(submeshes[s].vertices) - 1)

\* The loop that made the first vertex of a raw key: its normal is the key's representative.
FirstLoopOfKey(key) == At(reduced_vertex_indices, Min(CreatedForKey(key)) - 1)

\* dot >= -0.9 against the representative normal of the loop's raw key
CompatibleWithRepresentative(l) ==
    Dot(NormalOf(l), NormalOf(FirstLoopOfKey(KeyOf(l)))) >= -9000

\* C30: in the MergedMesh that from_flver returns, two loops that faces of different
\* submeshes (with different material tags) reference, that have the same raw key and whose
\* normals are both compatible with the key's representative normal, have the same vertex
\* index, the one of the key's first vertex.
C30_TablesPersistAcrossSubmeshes ==
    pc = "merged" =>
        \A l, m \in assigned_loop_indices :
            ( /\ SubmeshOfLoop(l) # SubmeshOfLoop(m)
              /\ submesh_material_indices[SubmeshOfLoop(l)] # submesh_material_indices[SubmeshOfLoop(m)]
              /\ KeyOf(l) = KeyOf(m)
              /\ CompatibleWithRepresentative(l)
              /\ CompatibleWithRepresentative(m) )
            => /\ At(loop_vertex_indices, l) = At(loop_vertex_indices, m)
               /\ At(loop_vertex_indices, l) = Min(CreatedForKey(KeyOf(l))) - 1

\* Loop 0 of the first submesh (normal P) and loop 2, the first of the second submesh
\* (normal B, dot exactly -0.9 with P), have the same raw key and ended on vertex 0.
C30_Witness ==
    /\ pc = "merged"
    /\ Len(submeshes) = 2
    /\ {0, 2} \subseteq assigned_loop_indices
    /\ KeyOf(0) = KeyOf(2)
    /\ NormalOf(0) = NormalP
    /\ NormalOf(2) = NormalB
    /\ At(loop_vertex_indices, 0) = 0
    /\ At(loop_vertex_indices, 2) = 0

====
